---- MODULE Spec2Model ----
(***************************************************************************)
(* A model of the reactive-language back end: the bytecode compiler        *)
(* (src/src/compiler.rs) and the virtual machine (src/src/vm/*.rs).        *)
(* The machine state is the VM struct; one action per instruction handler. *)
(* Forcing (pull-based reactivity) is host recursion in the source and is  *)
(* modelled by recursive operators over a record holding the VM state.     *)
(* The runs start from small programs over the input values a and b; the   *)
(* properties at the end relate each state to the one before it (prev).    *)
(***************************************************************************)
EXTENDS Integers, Sequences, FiniteSets, TLC

\* ------------------------------------------------------------------ bounds
\* Input values of the example programs range over 0..MaxVal.
MaxVal == 2
\* Steps a nested run (a function called while forcing) may take.
MaxFuel == 40
\* What the evaluation of one Lazy takes of that budget: a recursion of force
\* that does not return is cut off after MaxFuel \div ForceCost evaluations.
ForceCost == 8

\* ------------------------------------------------------------------ maps
\* HashMap<String, Type> is a function with a finite domain.
EmptyMap == [x \in {} |-> TRUE]

Put(m, k, v) == [x \in (DOMAIN m) \cup {k} |-> IF x = k THEN v ELSE m[x]]

Has(m, k) == k \in DOMAIN m

\* ------------------------------------------------------------------ values
\* grammar.rs Type: a tagged sum.
IntV(n) == [tag |-> "Int", n |-> n]

CharV(c) == [tag |-> "Char", c |-> c]

ArrayRef(id) == [tag |-> "ArrayRef", id |-> id]

StructRef(id) == [tag |-> "StructRef", id |-> id]

FunctionV(params, body) == [tag |-> "Function", params |-> params, body |-> body]

LazyValue(ast, captured) == [tag |-> "Lazy", ast |-> ast, captured |-> captured]

ArrayElem(id, index) == [tag |-> "LValue", kind |-> "ArrayElem", array_id |-> id, index |-> index]

StructField(id, field) == [tag |-> "LValue", kind |-> "StructField", struct_id |-> id, field |-> field]

Uninitialized == [tag |-> "Uninitialized"]

\* Option<T>
None == [tag |-> "None"]

Some(x) == [tag |-> "Some", v |-> x]

\* ------------------------------------------------------------------ syntax tree
Number(n) == [k |-> "Number", n |-> n]

Char(c) == [k |-> "Char", c |-> c]

Var(name) == [k |-> "Var", name |-> name]

Operation(l, o, r) == [k |-> "Operation", l |-> l, o |-> o, r |-> r]

Ternary(c, t, e) == [k |-> "Ternary", cond |-> c, then_expr |-> t, else_expr |-> e]

ArrayNew(size) == [k |-> "ArrayNew", size |-> size]

\* A string literal, as the sequence of its chars' code points.
StringLiteral(chars) == [k |-> "StringLiteral", chars |-> chars]

Index(base, index) == [k |-> "Index", base |-> base, index |-> index]

FieldAccess(base, field) == [k |-> "FieldAccess", base |-> base, field |-> field]

CallE(name, args) == [k |-> "Call", name |-> name, args |-> args]

Assign(name, e) == [k |-> "Assign", name |-> name, e |-> e]

ImmutableAssign(name, e) == [k |-> "ImmutableAssign", name |-> name, e |-> e]

ReactiveAssign(name, e) == [k |-> "ReactiveAssign", name |-> name, e |-> e]

AssignTarget(target, e) == [k |-> "AssignTarget", target |-> target, e |-> e]

ReactiveAssignTarget(target, e) == [k |-> "ReactiveAssignTarget", target |-> target, e |-> e]

ImmutableAssignTarget(target, e) == [k |-> "ImmutableAssignTarget", target |-> target, e |-> e]

FieldAssign(base, field, e, kind) ==
    [k |-> "FieldAssign", base |-> base, field |-> field, e |-> e, kind |-> kind]

IfElse(c, t, e) == [k |-> "IfElse", cond |-> c, then_block |-> t, else_block |-> e]

Loop(body) == [k |-> "Loop", body |-> body]

Break == [k |-> "Break"]

Return(e) == [k |-> "Return", e |-> e]

FuncDef(name, params, body) == [k |-> "FuncDef", name |-> name, params |-> params, body |-> body]

StructDef(name, fields) == [k |-> "StructDef", name |-> name, fields |-> fields]

StructNew(name) == [k |-> "StructNew", name |-> name]

Println(e) == [k |-> "Println", e |-> e]

PrintE(e) == [k |-> "Print", e |-> e]

\* import a.b.c: the path is the sequence of its segments.
Import(path) == [k |-> "Import", path |-> path]

Program(stmts) == [k |-> "Program", stmts |-> stmts]

\* A struct field declaration: (name, Option<StructFieldInit>); mode is one of
\* "Bare", "Mutable", "Immutable", "Reactive".
FieldDecl(name, mode, e) == [name |-> name, mode |-> mode, e |-> e]

\* ------------------------------------------------------------------ instructions
Ins0(op) == [op |-> op]

InsN(op, n) == [op |-> op, n |-> n]

InsName(op, name) == [op |-> op, name |-> name]

\* Label, Jump and JumpIfZero carry a label.
InsLabel(op, label) == [op |-> op, label |-> label]

InsAst(op, name, ast) == [op |-> op, name |-> name, ast |-> ast]

InsCall(name, argc) == [op |-> "Call", name |-> name, argc |-> argc]

InsStoreFunction(name, params, body) ==
    [op |-> "StoreFunction", name |-> name, params |-> params, body |-> body]

InsStoreStruct(name, fields) == [op |-> "StoreStruct", name |-> name, fields |-> fields]

InsImport(path) == [op |-> "Import", path |-> path]

\* ------------------------------------------------------------------ compiler
\* The compile state: the code emitted so far, the LabelGenerator counter,
\* the break stack, and ok = FALSE once the compiler has panicked.
NewCompileState == [code |-> <<>>, counter |-> 0, break_stack |-> <<>>, ok |-> TRUE]

Emit(cs, instr) == [cs EXCEPT !.code = Append(@, instr)]

\* LabelGenerator::fresh: format!("{prefix}_{counter}"), kept as the pair.
FreshLabel(cs, prefix) == <<prefix, cs.counter>>

Bump(cs) == [cs EXCEPT !.counter = @ + 1]

OperatorInstr(o) ==
    CASE o = "Addition" -> "Add"
      [] o = "Subtraction" -> "Sub"
      [] o = "Multiplication" -> "Mul"
      [] o = "Division" -> "Div"
      [] o = "Modulo" -> "Modulo"
      [] o = "Greater" -> "Greater"
      [] o = "Less" -> "Less"
      [] o = "Equal" -> "Equal"
      [] o = "NotEqual" -> "NotEqual"
      [] o = "GreaterEqual" -> "GreaterEqual"
      [] o = "LessEqual" -> "LessEqual"
      [] o = "And" -> "And"
      [] o = "Or" -> "Or"

RECURSIVE Compile(_, _)
RECURSIVE CompileAll(_, _)
RECURSIVE CompileLvalue(_, _)

CompileAll(stmts, cs) ==
    IF stmts = <<>> THEN cs
    ELSE CompileAll(Tail(stmts), Compile(Head(stmts), cs))

CompileLvalue(ast, cs) ==
    CASE ast.k = "Var" -> Emit(cs, InsName("Load", ast.name))
      [] ast.k = "Index" ->
            Emit(Compile(ast.index, CompileLvalue(ast.base, cs)), Ins0("ArrayLValue"))
      [] ast.k = "FieldAccess" ->
            Emit(CompileLvalue(ast.base, cs), InsName("FieldLValue", ast.field))
      [] OTHER -> [cs EXCEPT !.ok = FALSE]

CompileIfElse(ast, cs) ==
    LET c0 == Compile(ast.cond, cs)
        else_lbl == FreshLabel(c0, "else")
        c1 == Bump(c0)
        end_lbl == FreshLabel(c1, "ifend")
        c2 == Bump(c1)
        c3 == Emit(Emit(c2, InsLabel("JumpIfZero", else_lbl)), Ins0("PushImmutableContext"))
        c4 == CompileAll(ast.then_block, c3)
        c5 == Emit(Emit(Emit(Emit(c4, Ins0("PopImmutableContext")),
                             InsLabel("Jump", end_lbl)),
                        InsLabel("Label", else_lbl)),
                   Ins0("PushImmutableContext"))
        c6 == CompileAll(ast.else_block, c5)
    IN Emit(Emit(c6, Ins0("PopImmutableContext")), InsLabel("Label", end_lbl))

CompileLoop(ast, cs) ==
    LET start == FreshLabel(cs, "loop_start")
        c1 == Bump(cs)
        end == FreshLabel(c1, "loop_end")
        c2 == [Bump(c1) EXCEPT !.break_stack = Append(@, end)]
        c3 == Emit(Emit(Emit(c2, Ins0("PushImmutableContext")),
                        InsLabel("Label", start)),
                   Ins0("ClearImmutableContext"))
        c4 == CompileAll(ast.body, c3)
        c5 == Emit(Emit(Emit(c4, InsLabel("Jump", start)),
                        InsLabel("Label", end)),
                   Ins0("PopImmutableContext"))
    IN [c5 EXCEPT !.break_stack = SubSeq(@, 1, Len(@) - 1)]

\* A variant of the lowering of break that jumps to the end label of the
\* outermost loop on the break stack.
CompileBreakOutermost(cs) ==
    IF cs.break_stack = <<>> THEN [cs EXCEPT !.ok = FALSE]
    ELSE Emit(cs, InsLabel("Jump", cs.break_stack[1]))

CompileBreak(cs) ==
    IF cs.break_stack = <<>> THEN [cs EXCEPT !.ok = FALSE]
    ELSE Emit(cs, InsLabel("Jump", cs.break_stack[Len(cs.break_stack)]))

CompileTernary(ast, cs) ==
    LET c0 == Compile(ast.cond, cs)
        else_lbl == FreshLabel(c0, "ternary_else")
        c1 == Bump(c0)
        end_lbl == FreshLabel(c1, "ternary_end")
        c2 == Emit(Bump(c1), InsLabel("JumpIfZero", else_lbl))
        c3 == Emit(Emit(Compile(ast.then_expr, c2), InsLabel("Jump", end_lbl)),
                   InsLabel("Label", else_lbl))
    IN Emit(Compile(ast.else_expr, c3), InsLabel("Label", end_lbl))

CompileFieldAssign(ast, cs) ==
    CASE ast.kind = "Normal" ->
            Emit(Compile(ast.e, Compile(ast.base, cs)), InsName("FieldSet", ast.field))
      [] ast.kind = "Reactive" ->
            Emit(Compile(ast.base, cs), InsAst("FieldSetReactive", ast.field, ast.e))
      [] OTHER -> [cs EXCEPT !.ok = FALSE]

CompileProgram(ast, cs) ==
    LET c1 == CompileAll(ast.stmts, cs)
        has_main == \E i \in 1..Len(ast.stmts) :
                        ast.stmts[i].k = "FuncDef" /\ ast.stmts[i].name = "main"
    IN IF ~has_main THEN [c1 EXCEPT !.ok = FALSE]
       ELSE Emit(Emit(c1, InsCall("main", 0)), Ins0("Return"))

\* format!("__strlit_{}", counter), for the counters a program here reaches.
StrlitTable ==
    <<"__strlit_0", "__strlit_1", "__strlit_2", "__strlit_3", "__strlit_4",
      "__strlit_5", "__strlit_6", "__strlit_7", "__strlit_8", "__strlit_9">>

StrlitName(k) == StrlitTable[k + 1]

StrlitNames == {StrlitTable[k] : k \in 1..Len(StrlitTable)}

RECURSIVE EmitChars(_, _, _, _)
\* compile_string_literal: the loop over the chars, from char i (1-based) on.
EmitChars(cs, tmp, chars, i) ==
    IF i > Len(chars) THEN cs
    ELSE EmitChars(Emit(Emit(Emit(Emit(Emit(cs, InsName("Load", tmp)),
                                            InsN("Push", i - 1)),
                                       Ins0("ArrayLValue")),
                                  InsN("PushChar", chars[i])),
                             Ins0("StoreThrough")),
                   tmp, chars, i + 1)

\* compile_string_literal
CompileStringLiteral(ast, cs) ==
    IF cs.counter >= Len(StrlitTable) THEN [cs EXCEPT !.ok = FALSE]
    ELSE Emit(EmitChars(Emit(Emit(Emit(Bump(cs), InsN("Push", Len(ast.chars))),
                                  Ins0("ArrayNew")),
                             InsName("Store", StrlitName(cs.counter))),
                        StrlitName(cs.counter), ast.chars, 1),
              InsName("Load", StrlitName(cs.counter)))

Compile(ast, cs) ==
    CASE ast.k = "Number" -> Emit(cs, InsN("Push", ast.n))
      [] ast.k = "Char" -> Emit(cs, InsN("PushChar", ast.c))
      [] ast.k = "Var" -> Emit(cs, InsName("Load", ast.name))
      [] ast.k = "ArrayNew" -> Emit(Compile(ast.size, cs), Ins0("ArrayNew"))
      [] ast.k = "Index" ->
            Emit(Compile(ast.index, Compile(ast.base, cs)), Ins0("ArrayGet"))
      [] ast.k = "FieldAccess" ->
            Emit(Compile(ast.base, cs), InsName("FieldGet", ast.field))
      [] ast.k = "Operation" ->
            Emit(Compile(ast.r, Compile(ast.l, cs)), Ins0(OperatorInstr(ast.o)))
      [] ast.k = "Ternary" -> CompileTernary(ast, cs)
      [] ast.k = "Call" -> Emit(CompileAll(ast.args, cs), InsCall(ast.name, Len(ast.args)))
      [] ast.k = "Assign" -> Emit(Compile(ast.e, cs), InsName("Store", ast.name))
      [] ast.k = "ImmutableAssign" ->
            Emit(Compile(ast.e, cs), InsName("StoreImmutable", ast.name))
      [] ast.k = "ReactiveAssign" -> Emit(cs, InsAst("StoreReactive", ast.name, ast.e))
      [] ast.k = "AssignTarget" ->
            Emit(Compile(ast.e, CompileLvalue(ast.target, cs)), Ins0("StoreThrough"))
      [] ast.k = "ReactiveAssignTarget" ->
            Emit(CompileLvalue(ast.target, cs), InsAst("StoreThroughReactive", "", ast.e))
      [] ast.k = "ImmutableAssignTarget" ->
            Emit(Compile(ast.e, CompileLvalue(ast.target, cs)), Ins0("StoreThroughImmutable"))
      [] ast.k = "FieldAssign" -> CompileFieldAssign(ast, cs)
      [] ast.k = "IfElse" -> CompileIfElse(ast, cs)
      [] ast.k = "Loop" -> CompileLoop(ast, cs)
      [] ast.k = "Break" -> CompileBreak(cs)
      [] ast.k = "StringLiteral" -> CompileStringLiteral(ast, cs)
      [] ast.k = "Return" ->
            Emit(IF ast.e = None THEN Emit(cs, InsN("Push", 0)) ELSE Compile(ast.e.v, cs),
                 Ins0("Return"))
      [] ast.k = "FuncDef" -> Emit(cs, InsStoreFunction(ast.name, ast.params, ast.body))
      [] ast.k = "StructDef" -> Emit(cs, InsStoreStruct(ast.name, ast.fields))
      [] ast.k = "StructNew" -> Emit(cs, InsName("NewStruct", ast.name))
      [] ast.k = "Println" -> Emit(Compile(ast.e, cs), Ins0("Println"))
      [] ast.k = "Print" -> Emit(Compile(ast.e, cs), Ins0("Print"))
      [] ast.k = "Import" -> Emit(cs, InsImport(ast.path))
      [] ast.k = "Program" -> CompileProgram(ast, cs)

\* compile_module: the statements of the program in turn, with no call of
\* main and no trailing Return.
CompileModule(ast, cs) ==
    IF ast.k = "Program" THEN CompileAll(ast.stmts, cs) ELSE Compile(ast, cs)

\* call.rs compiles a function body when it is called: each statement in turn
\* with a new LabelGenerator and break stack, then a Return.
CompileFunctionBody(body) == Emit(CompileAll(body, NewCompileState), Ins0("Return"))

\* VM::build_labels: the offset (0-based) of each Label; the last one wins.
LabelNames(code) == {code[i].label : i \in {j \in 1..Len(code) : code[j].op = "Label"}}

BuildLabels(code) ==
    [l \in LabelNames(code) |->
        CHOOSE i \in 0..(Len(code) - 1) :
            /\ code[i + 1].op = "Label" /\ code[i + 1].label = l
            /\ \A j \in (i + 1)..(Len(code) - 1) :
                  ~(code[j + 1].op = "Label" /\ code[j + 1].label = l)]


\* ------------------------------------------------------------------ VM state
\* The VM struct as a record (vm/mod.rs), with: status, "running" until the
\* program ends ("done"), panics ("panic", err = the message) or a host
\* recursion does not return ("diverged"); fuel, the budget of one
\* instruction's nested evaluation; output, what was printed.
Running(s) == s.status = "running"

Panic(s, msg) == IF Running(s) THEN [s EXCEPT !.status = "panic", !.err = msg] ELSE s

Diverge(s) == IF Running(s) THEN [s EXCEPT !.status = "diverged"] ELSE s

\* A host function's result: the VM state after it and the value returned.
Ret(s, v) == [s |-> s, v |-> v]

Bad(r) == ~Running(r.s)

\* The source's "let x = e;": With([x \in {e} |-> body]) is body with x
\* standing for the value of e.
With(f) == f[CHOOSE x \in DOMAIN f : TRUE]

Last(q) == q[Len(q)]

Front(q) == SubSeq(q, 1, Len(q) - 1)

\* Vec indexing by a 0-based id.
At(q, id) == q[id + 1]

SetAt(q, id, v) == [q EXCEPT ![id + 1] = v]

Push(s, v) == [s EXCEPT !.stack = Append(@, v)]

\* runtime.rs pop: panics on an empty operand stack.
Pop(s) ==
    IF s.stack = <<>> THEN Ret(Panic(s, "stack underflow"), None)
    ELSE Ret([s EXCEPT !.stack = Front(@)], Last(s.stack))

PushScope(s, frame) == [s EXCEPT !.immutable_stack = Append(@, frame)]

PopScope(s) == [s EXCEPT !.immutable_stack = Front(@)]

\* ------------------------------------------------------------------ env.rs
\* find_immutable: innermost frame first.
FindImmutable(s, name) ==
    LET hits == {i \in 1..Len(s.immutable_stack) : Has(s.immutable_stack[i], name)}
    IN IF hits = {} THEN None
       ELSE Some(s.immutable_stack[CHOOSE i \in hits : \A j \in hits : j <= i][name])

ImmutableExists(s, name) == FindImmutable(s, name) # None

\* A variant of lookup_var that asks the local map before the immutable frames.
LookupVarLocalFirst(s, name) ==
    IF s.local_env # None /\ Has(s.local_env.v, name) THEN Some(s.local_env.v[name])
    ELSE IF FindImmutable(s, name) # None THEN FindImmutable(s, name)
    ELSE IF Has(s.global_env, name) THEN Some(s.global_env[name])
    ELSE None

\* lookup_var: immutable frames, then the local map, then the global map.
LookupVar(s, name) ==
    IF FindImmutable(s, name) # None THEN FindImmutable(s, name)
    ELSE IF s.local_env # None /\ Has(s.local_env.v, name) THEN Some(s.local_env.v[name])
    ELSE IF Has(s.global_env, name) THEN Some(s.global_env[name])
    ELSE None

\* A variant of ensure_mutable_binding that never rejects a store.
EnsureMutableBindingAlways(s, name) == TRUE

\* ensure_mutable_binding: TRUE when the assignment is allowed.
EnsureMutableBinding(s, name) ==
    IF s.local_env # None THEN TRUE
    ELSE ~ImmutableExists(s, name)

\* A variant of the stores' match on local_env that always takes the None arm.
InsertMutableGlobal(s, name, v) == [s EXCEPT !.global_env = Put(@, name, v)]

\* The mutable map a store writes: the local map inside a call, else the global.
InsertMutable(s, name, v) ==
    IF s.local_env # None THEN [s EXCEPT !.local_env = Some(Put(s.local_env.v, name, v))]
    ELSE [s EXCEPT !.global_env = Put(@, name, v)]

\* ------------------------------------------------------------------ arithmetic
\* An i32 is held as its value. A u32 (the code of a Char) is held as the
\* i32 with the same 32 bits, so that every value fits a 32-bit integer: a
\* code below 2^31 is itself, a code c from 2^31 on is c - 2^32.
I32Max == 2147483647

I32Min == -I32Max - 1

\* `as u32` of an i32 and `as i32` of a u32 keep the 32 bits.
U32(x) == x

I32(x) == x

Abs(x) == IF x < 0 THEN -x ELSE x

\* Rust's / and % truncate toward zero.
TruncDiv(a, b) == IF (a < 0) = (b < 0) THEN Abs(a) \div Abs(b) ELSE -(Abs(a) \div Abs(b))

TruncRem(a, b) == a - b * TruncDiv(a, b)

Bool(b) == IF b THEN 1 ELSE 0

\* The integer operation of eval_value's last arm and of the exec_* handlers.
IntOp(o, ai, bi) ==
    CASE o = "Addition" -> ai + bi
      [] o = "Subtraction" -> ai - bi
      [] o = "Multiplication" -> ai * bi
      [] o = "Division" -> TruncDiv(ai, bi)
      [] o = "Modulo" -> TruncRem(ai, bi)
      [] o = "Greater" -> Bool(ai > bi)
      [] o = "Less" -> Bool(ai < bi)
      [] o = "Equal" -> Bool(ai = bi)
      [] o = "NotEqual" -> Bool(ai # bi)
      [] o = "GreaterEqual" -> Bool(ai >= bi)
      [] o = "LessEqual" -> Bool(ai <= bi)
      [] o = "And" -> Bool(ai > 0 /\ bi > 0)
      [] o = "Or" -> Bool(ai > 0 \/ bi > 0)

\* a + b and a - b leave the range of i32.
AddOverflows(a, b) == (b > 0 /\ a > I32Max - b) \/ (b < 0 /\ a < I32Min - b)

SubOverflows(a, b) == (b < 0 /\ a > I32Max + b) \/ (b > 0 /\ a < I32Min + b)

\* a + b and a - b reduced to 32 bits (two's complement).
WrappingAdd(a, b) ==
    IF b > 0 /\ a > I32Max - b THEN (a - I32Max - 1) + (b - I32Max - 1)
    ELSE IF b < 0 /\ a < I32Min - b THEN (a + I32Max + 1) + (b + I32Max + 1)
    ELSE a + b

WrappingSub(a, b) ==
    IF b < 0 /\ a > I32Max + b THEN (a - I32Max - 1) - (b + I32Max + 1)
    ELSE IF b > 0 /\ a < I32Min + b THEN (a + I32Max + 1) - (b - I32Max - 1)
    ELSE a - b

MulOverflows(a, b) ==
    /\ a # 0 /\ b # 0
    /\ ~(a = 1 \/ b = 1)
    /\ \/ a = I32Min \/ b = I32Min
       \/ Abs(a) > I32Max \div Abs(b)

RECURSIVE WrappingMul(_, _)
\* a * b reduced to 32 bits, by the binary digits of b.
WrappingMul(a, b) ==
    IF b = 0 THEN 0
    ELSE IF b = -1 THEN WrappingSub(0, a)
    ELSE WrappingAdd(WrappingMul(WrappingAdd(a, a), b \div 2), IF b % 2 = 1 THEN a ELSE 0)

\* As u32 operations on the held bits: a + b passes 2^32, a - b passes 0.
U32AddOverflows(a, b) ==
    IF a >= 0 /\ b >= 0 THEN FALSE
    ELSE IF a < 0 /\ b < 0 THEN TRUE
    ELSE a + b >= 0

U32SubOverflows(a, b) == IF (a >= 0) = (b >= 0) THEN a < b ELSE a >= 0

\* a % b as u32, b not 0.
U32Rem(a, b) ==
    IF a >= 0 /\ b > 0 THEN a % b
    ELSE IF a >= 0 THEN a
    ELSE IF b < 0 THEN (IF a >= b THEN a - b ELSE a)
    ELSE ((a % b) + ((2 * (I32Max % b) + 2) % b)) % b

\* An operation whose result leaves its type: a build with overflow checks
\* (a debug build) panics, a build without them (a release build) wraps.
Overflow(s, wrapped) ==
    IF s.overflow_checks THEN [s |-> Panic(s, "arithmetic overflow"), v |-> None]
    ELSE [s |-> s, v |-> wrapped]

\* The i32 operation a o b as Rust evaluates it: / and % panic on a zero
\* divisor and on i32::MIN by -1, + - * overflow.
IntArith(s, o, a, b) ==
    CASE o = "Addition" ->
            IF AddOverflows(a, b) THEN Overflow(s, WrappingAdd(a, b))
            ELSE [s |-> s, v |-> a + b]
      [] o = "Subtraction" ->
            IF SubOverflows(a, b) THEN Overflow(s, WrappingSub(a, b))
            ELSE [s |-> s, v |-> a - b]
      [] o = "Multiplication" ->
            IF MulOverflows(a, b) THEN Overflow(s, WrappingMul(a, b))
            ELSE [s |-> s, v |-> a * b]
      [] o \in {"Division", "Modulo"} ->
            IF b = 0 THEN [s |-> Panic(s, "arithmetic fault"), v |-> None]
            ELSE IF a = I32Min /\ b = -1
                 THEN [s |-> Panic(s, "arithmetic overflow"), v |-> None]
            ELSE [s |-> s, v |-> IntOp(o, a, b)]
      [] OTHER -> [s |-> s, v |-> IntOp(o, a, b)]

\* (c as i32 o n) as u32: the Char arm of add_values, sub_values, mod_values
\* and of eval_value(Operation) for a Char with an Int, in either order.
MixedChar(s, o, c, n) ==
    With([r \in {IntArith(s, o, I32(c), n)} |->
      IF Bad(r) THEN r ELSE Ret(r.s, [tag |-> "Char", c |-> U32(r.v)])])

\* a o b on two codes (u32): the two-Char arm of add_values, sub_values and
\* mod_values.
CharChar(s, o, a, b) ==
    CASE o = "Addition" ->
            IF U32AddOverflows(a, b)
            THEN Overflow(s, [tag |-> "Char", c |-> WrappingAdd(a, b)])
            ELSE [s |-> s, v |-> [tag |-> "Char", c |-> WrappingAdd(a, b)]]
      [] o = "Subtraction" ->
            IF U32SubOverflows(a, b)
            THEN Overflow(s, [tag |-> "Char", c |-> WrappingSub(a, b)])
            ELSE [s |-> s, v |-> [tag |-> "Char", c |-> WrappingSub(a, b)]]
      [] o = "Modulo" ->
            IF b = 0 THEN [s |-> Panic(s, "arithmetic fault"), v |-> None]
            ELSE [s |-> s, v |-> [tag |-> "Char", c |-> U32Rem(a, b)]]

\* ------------------------------------------------------------------ capture
RECURSIVE AstFreeVars(_)
RECURSIVE AstFreeVarsAll(_)

AstFreeVarsAll(args) ==
    IF args = <<>> THEN {} ELSE AstFreeVars(Head(args)) \cup AstFreeVarsAll(Tail(args))

\* ast_free_vars: every other variant contributes nothing.
AstFreeVars(ast) ==
    CASE ast.k = "Var" -> {ast.name}
      [] ast.k = "Operation" -> AstFreeVars(ast.l) \cup AstFreeVars(ast.r)
      [] ast.k = "Index" -> AstFreeVars(ast.base) \cup AstFreeVars(ast.index)
      [] ast.k = "FieldAccess" -> AstFreeVars(ast.base)
      [] ast.k = "Ternary" ->
            AstFreeVars(ast.cond) \cup AstFreeVars(ast.then_expr) \cup AstFreeVars(ast.else_expr)
      [] ast.k = "Call" -> AstFreeVarsAll(ast.args)
      [] OTHER -> {}

\* A variant of capture_immutables_for_ast that also snapshots the free names
\* the local map binds.
CaptureImmutablesAndLocals(s, ast) ==
    LET names == {n \in AstFreeVars(ast) : FindImmutable(s, n) # None \/
                     (s.local_env # None /\ Has(s.local_env.v, n))}
    IN [n \in names |-> IF FindImmutable(s, n) # None THEN FindImmutable(s, n).v
                         ELSE s.local_env.v[n]]

\* capture_immutables_for_ast: snapshot the free names the immutable stack binds.
CaptureImmutablesForAst(s, ast) ==
    LET names == {n \in AstFreeVars(ast) : FindImmutable(s, n) # None}
    IN [n \in names |-> FindImmutable(s, n).v]

RECURSIVE FreezeAst(_, _)

\* freeze_ast: Var(x) becomes Number(n) when x is an immutable integer; every
\* variant not listed is returned as it is.
FreezeAst(s, ast) ==
    CASE ast.k = "Var" ->
            LET f == FindImmutable(s, ast.name)
            IN IF f # None /\ f.v.tag = "Int" THEN Number(f.v.n) ELSE ast
      [] ast.k = "Operation" -> Operation(FreezeAst(s, ast.l), ast.o, FreezeAst(s, ast.r))
      [] ast.k = "Index" -> Index(FreezeAst(s, ast.base), FreezeAst(s, ast.index))
      [] ast.k = "FieldAccess" -> FieldAccess(FreezeAst(s, ast.base), ast.field)
      [] ast.k = "Ternary" ->
            Ternary(FreezeAst(s, ast.cond), FreezeAst(s, ast.then_expr),
                    FreezeAst(s, ast.else_expr))
      [] OTHER -> ast

\* ------------------------------------------------------------------ forcing
\* The host functions below call one another recursively (force, eval_value,
\* as_int, call_function, run, ...). Their calls to each other are written
\* Invoke("F", <<arguments>>), which applies F to the arguments.
RECURSIVE Invoke(_, _)

\* read_lvalue
ReadLvalue(s, lv) ==
    IF lv.kind = "ArrayElem" THEN
        IF lv.index >= Len(At(s.array_heap, lv.array_id))
        THEN Ret(Panic(s, "array lvalue read out of bounds"), None)
        ELSE Ret(s, At(At(s.array_heap, lv.array_id), lv.index))
    ELSE
        IF ~Has(At(s.heap, lv.struct_id).fields, lv.field)
        THEN Ret(Panic(s, "missing struct field"), None)
        ELSE Ret(s, At(s.heap, lv.struct_id).fields[lv.field])

\* A variant of force that returns what a Lazy evaluates to without forcing
\* it again.
ForceOnce(s, v) ==
    CASE v.tag = "Lazy" ->
            IF s.fuel < ForceCost THEN Ret(Diverge(s), None)
            ELSE With([out \in {Invoke("EvalValue",
                                       <<PushScope([s EXCEPT !.fuel = @ - ForceCost], v.captured),
                                         v.ast>>)} |->
                    IF Bad(out) THEN out ELSE Ret(PopScope(out.s), out.v)])
      [] v.tag = "LValue" ->
            With([val \in {ReadLvalue(s, v)} |->
                    IF Bad(val) THEN val
                    ELSE IF v.kind = "StructField"
                         THEN Invoke("ForceStructField", <<s, v.struct_id, val.v>>)
                    ELSE Invoke("Force", <<s, val.v>>)])
      [] OTHER -> Ret(s, v)

\* A variant of force that returns an LValue as it is.
ForceKeepPath(s, v) ==
    CASE v.tag = "Lazy" ->
            IF s.fuel < ForceCost THEN Ret(Diverge(s), None)
            ELSE With([out \in {Invoke("EvalValue",
                                       <<PushScope([s EXCEPT !.fuel = @ - ForceCost], v.captured),
                                         v.ast>>)} |->
                    IF Bad(out) THEN out
                    ELSE Invoke("Force", <<PopScope(out.s), out.v>>)])
      [] OTHER -> Ret(s, v)

\* force: a Lazy is evaluated under its captured frame, an LValue is read
\* through, anything else is returned as it is.
Force(s, v) ==
    CASE v.tag = "Lazy" ->
            IF s.fuel < ForceCost THEN Ret(Diverge(s), None)
            ELSE With([out \in {Invoke("EvalValue",
                                       <<PushScope([s EXCEPT !.fuel = @ - ForceCost], v.captured),
                                         v.ast>>)} |->
                    IF Bad(out) THEN out
                    ELSE Invoke("Force", <<PopScope(out.s), out.v>>)])
      [] v.tag = "LValue" ->
            With([val \in {ReadLvalue(s, v)} |->
                    IF Bad(val) THEN val
                    ELSE IF v.kind = "StructField"
                         THEN Invoke("ForceStructField", <<s, v.struct_id, val.v>>)
                    ELSE Invoke("Force", <<s, val.v>>)])
      [] OTHER -> Ret(s, v)

\* A variant of force_struct_field that evaluates the Lazy without the record's
\* fields bound.
ForceStructFieldUnbound(s, struct_id, v) ==
    Invoke("Force", <<s, v>>)

\* force_struct_field: a Lazy drawn from a record field is evaluated with the
\* record's fields bound as lvalues on top of its captured frame.
ForceStructField(s, struct_id, v) ==
    IF v.tag = "Lazy" THEN
        IF s.fuel < ForceCost THEN Ret(Diverge(s), None)
        ELSE With([out \in {Invoke("EvalReactiveFieldInStruct",
                                   <<PushScope([s EXCEPT !.fuel = @ - ForceCost], v.captured),
                                     struct_id, v.ast>>)} |->
                IF Bad(out) THEN out
                ELSE Invoke("Force", <<PopScope(out.s), out.v>>)])
    ELSE Invoke("Force", <<s, v>>)

\* eval_reactive_field_in_struct
EvalReactiveFieldInStruct(s, struct_id, ast) ==
    With([result \in {Invoke("EvalValue",
                             <<PushScope(s, [key \in DOMAIN At(s.heap, struct_id).fields |->
                                                StructField(struct_id, key)]),
                               ast>>)} |->
            IF Bad(result) THEN result ELSE Ret(PopScope(result.s), result.v)])

\* as_int
AsInt(s, v) ==
    With([f \in {Invoke("Force", <<s, v>>)} |->
            IF Bad(f) THEN f
            ELSE CASE f.v.tag = "Int" -> Ret(f.s, f.v.n)
                   [] f.v.tag = "Char" -> Ret(f.s, I32(f.v.c))
                   [] f.v.tag = "ArrayRef" -> Ret(f.s, Len(At(f.s.array_heap, f.v.id)))
                   [] OTHER -> Ret(Panic(f.s, "type error: cannot coerce to int"), None)])

\* as_usize_nonneg
AsUsizeNonneg(s, v) ==
    With([i \in {Invoke("AsInt", <<s, v>>)} |->
            IF Bad(i) THEN i
            ELSE IF i.v < 0 THEN Ret(Panic(i.s, "out of bounds: negative"), None)
            ELSE i])

\* The Vec of argument values of eval_value's Call arm, left to right.
EvalArgs(s, args, acc) ==
    IF args = <<>> THEN Ret(s, acc)
    ELSE With([a \in {Invoke("EvalValue", <<s, Head(args)>>)} |->
            IF Bad(a) THEN a
            ELSE Invoke("EvalArgs", <<a.s, Tail(args), Append(acc, a.v)>>)])

\* The array allocation shared by exec_array_new and eval_value(ArrayNew).
AllocArray(s, n) ==
    [s EXCEPT !.array_heap = Append(@, [i \in 1..n |-> IntV(0)]),
              !.array_immutables = Append(@, {})]

\* The match of eval_value(Operation) on the two forced operands: a Char with
\* an Int under +, - and % gives a Char, everything else an Int.
OperateForced(s, o, a, b) ==
    IF /\ o \in {"Addition", "Subtraction", "Modulo"}
       /\ (a.tag = "Char" /\ b.tag = "Int") \/ (a.tag = "Int" /\ b.tag = "Char")
    THEN MixedChar(s, o, IF a.tag = "Char" THEN a.c ELSE b.c,
                         IF a.tag = "Int" THEN a.n ELSE b.n)
    ELSE With([ai \in {Invoke("AsInt", <<s, a>>)} |->
           IF Bad(ai) THEN ai ELSE
         With([bi \in {Invoke("AsInt", <<ai.s, b>>)} |->
           IF Bad(bi) THEN bi ELSE
         With([r \in {IntArith(bi.s, o, ai.v, bi.v)} |->
           IF Bad(r) THEN r ELSE Ret(r.s, IntV(r.v))])])])

\* eval_value(Operation): both operands are evaluated, then forced.
EvalOperation(s, ast) ==
    With([lv \in {Invoke("EvalValue", <<s, ast.l>>)} |->
      IF Bad(lv) THEN lv ELSE
    With([rv \in {Invoke("EvalValue", <<lv.s, ast.r>>)} |->
      IF Bad(rv) THEN rv ELSE
    With([fl \in {Invoke("Force", <<rv.s, lv.v>>)} |->
      IF Bad(fl) THEN fl ELSE
    With([fr \in {Invoke("Force", <<fl.s, rv.v>>)} |->
      IF Bad(fr) THEN fr
      ELSE OperateForced(fr.s, ast.o, fl.v, fr.v)])])])])

\* eval_value(FieldAccess)
EvalFieldAccess(s, ast) ==
    With([value \in {Invoke("EvalValue", <<s, ast.base>>)} |->
      IF Bad(value) THEN value ELSE
    With([obj \in {Invoke("Force", <<value.s, value.v>>)} |->
      IF Bad(obj) THEN obj
      ELSE IF obj.v.tag # "StructRef"
           THEN Ret(Panic(obj.s, "type error: field access on non-struct"), None)
      ELSE IF ~Has(At(obj.s.heap, obj.v.id).fields, ast.field)
           THEN Ret(Panic(obj.s, "missing struct field"), None)
      ELSE Invoke("ForceStructField",
                  <<obj.s, obj.v.id, At(obj.s.heap, obj.v.id).fields[ast.field]>>)])])

\* eval_value(Index): the index is evaluated before the base.
EvalIndex(s, ast) ==
    With([idx_val \in {Invoke("EvalValue", <<s, ast.index>>)} |->
      IF Bad(idx_val) THEN idx_val ELSE
    With([idx \in {AsUsizeNonneg(idx_val.s, idx_val.v)} |->
      IF Bad(idx) THEN idx ELSE
    With([base_val \in {Invoke("EvalValue", <<idx.s, ast.base>>)} |->
      IF Bad(base_val) THEN base_val ELSE
    With([arr \in {Invoke("Force", <<base_val.s, base_val.v>>)} |->
      IF Bad(arr) THEN arr
      ELSE IF arr.v.tag # "ArrayRef"
           THEN Ret(Panic(arr.s, "type error: indexing non-array"), None)
      ELSE IF idx.v >= Len(At(arr.s.array_heap, arr.v.id))
           THEN Ret(Panic(arr.s, "array index out of bounds"), None)
      ELSE Invoke("Force", <<arr.s, At(At(arr.s.array_heap, arr.v.id), idx.v)>>)])])])])

\* eval_value: the interpreter of reactive expressions. The StringLiteral
\* arm pushes the chars on array_heap and nothing on array_immutables.
EvalValue(s, ast) ==
    CASE ast.k = "Number" -> Ret(s, IntV(ast.n))
      [] ast.k = "Char" -> Ret(s, CharV(ast.c))
      [] ast.k = "Var" ->
            IF LookupVar(s, ast.name) # None THEN Ret(s, LookupVar(s, ast.name).v)
            ELSE Ret(Panic(s, "undefined variable"), None)
      [] ast.k = "Ternary" ->
            With([value \in {Invoke("EvalValue", <<s, ast.cond>>)} |->
              IF Bad(value) THEN value ELSE
            With([c \in {Invoke("AsInt", <<value.s, value.v>>)} |->
              IF Bad(c) THEN c
              ELSE IF c.v # 0 THEN Invoke("EvalValue", <<c.s, ast.then_expr>>)
              ELSE Invoke("EvalValue", <<c.s, ast.else_expr>>)])])
      [] ast.k = "ArrayNew" ->
            With([value \in {Invoke("EvalValue", <<s, ast.size>>)} |->
              IF Bad(value) THEN value ELSE
            With([n \in {AsUsizeNonneg(value.s, value.v)} |->
              IF Bad(n) THEN n
              ELSE Ret(AllocArray(n.s, n.v), ArrayRef(Len(n.s.array_heap)))])])
      [] ast.k = "StringLiteral" ->
            Ret([s EXCEPT !.array_heap =
                    Append(@, [i \in 1..Len(ast.chars) |-> CharV(ast.chars[i])])],
                ArrayRef(Len(s.array_heap)))
      [] ast.k = "FieldAccess" -> EvalFieldAccess(s, ast)
      [] ast.k = "Index" -> EvalIndex(s, ast)
      [] ast.k = "Call" ->
            With([vals \in {Invoke("EvalArgs", <<s, ast.args, <<>> >>)} |->
              IF Bad(vals) THEN vals
              ELSE IF ~Has(vals.s.global_env, ast.name)
                   THEN Ret(Panic(vals.s, "call error: not defined"), None)
              ELSE Invoke("CallFunction", <<vals.s, vals.s.global_env[ast.name], vals.v>>)])
      [] ast.k = "Operation" -> EvalOperation(s, ast)
      [] OTHER -> Ret(Panic(s, "eval_value(): unsupported AST variant"), None)

\* ------------------------------------------------------------------ call.rs
\* The parameter frame of call_function: params.zip(args), a later duplicate
\* parameter name overwriting an earlier one.
RECURSIVE ZipParams(_, _, _)
ZipParams(params, args, scope) ==
    IF params = <<>> \/ args = <<>> THEN scope
    ELSE ZipParams(Tail(params), Tail(args), Put(scope, Head(params), Head(args)))

\* A variant of the callee's immutable stack that keeps every frame of the
\* caller below the parameter frame.
CalleeImmutablesInherit(s, params, args) ==
    Append(s.immutable_stack, ZipParams(params, args, EmptyMap))

\* The immutable stack a callee starts with: a copy of frame 0, then the
\* parameter frame.
CalleeImmutables(s, params, args) ==
    <<s.immutable_stack[1], ZipParams(params, args, EmptyMap)>>

\* push_frame: save the caller's context in a CallFrame and install the callee's.
PushFrame(s, code, labels, local_env, immutable_stack) ==
    LET frame == [code |-> s.code, labels |-> s.labels, pointer |-> s.pointer,
                  local_env |-> s.local_env, immutable_stack |-> s.immutable_stack,
                  stack_base |-> Len(s.stack)]
    IN [s EXCEPT !.code = code, !.labels = labels, !.pointer = 0,
                 !.local_env = local_env, !.immutable_stack = immutable_stack,
                 !.call_stack = Append(@, frame)]

\* A variant of pop_frame that leaves the callee's immutable stack in place.
PopFrameKeepScopes(s) ==
    IF s.call_stack = <<>> THEN Ret(Panic(s, "call stack underflow"), None)
    ELSE LET frame == Last(s.call_stack)
             has == Len(s.stack) > frame.stack_base
         IN Ret([s EXCEPT !.stack = IF has THEN Front(@) ELSE @,
                          !.call_stack = Front(@),
                          !.code = frame.code, !.labels = frame.labels,
                          !.pointer = frame.pointer, !.local_env = frame.local_env],
                IF has THEN Last(s.stack) ELSE IntV(0))

\* pop_frame: the return value is the top operand above the saved base, else
\* Int(0); the caller's context is restored.
PopFrame(s) ==
    IF s.call_stack = <<>> THEN Ret(Panic(s, "call stack underflow"), None)
    ELSE LET frame == Last(s.call_stack)
             has == Len(s.stack) > frame.stack_base
         IN Ret([s EXCEPT !.stack = IF has THEN Front(@) ELSE @,
                          !.call_stack = Front(@),
                          !.code = frame.code, !.labels = frame.labels,
                          !.pointer = frame.pointer, !.local_env = frame.local_env,
                          !.immutable_stack = frame.immutable_stack],
                IF has THEN Last(s.stack) ELSE IntV(0))

\* call_function up to and including push_frame.
EnterFunction(s, f, args) ==
    IF f.tag # "Function" THEN Panic(s, "attempted to call non-function")
    ELSE With([cs \in {CompileFunctionBody(f.body)} |->
            IF ~cs.ok THEN Panic(s, "compile error")
            ELSE PushFrame(s, cs.code, BuildLabels(cs.code), Some(EmptyMap),
                           CalleeImmutables(s, f.params, args))])

\* The run() loop of a call made while forcing: it ends at the Return of the
\* frame it was started for (or at the end of the code).
RunNested(s, depth) ==
    IF ~Running(s) THEN s
    ELSE IF /\ Len(s.call_stack) = depth
            /\ ~Invoke("ImportInnermost", <<s>>)
            /\ (s.pointer >= Len(s.code) \/ At(s.code, s.pointer).op = "Return") THEN s
    ELSE IF s.fuel = 0 THEN Diverge(s)
    ELSE Invoke("RunNested", <<Invoke("Step", <<[s EXCEPT !.fuel = @ - 1]>>), depth>>)

\* call_function: push the frame, run, pop the frame.
CallFunction(s, f, args) ==
    With([s1 \in {EnterFunction(s, f, args)} |->
      IF ~Running(s1) THEN Ret(s1, None) ELSE
    With([s2 \in {Invoke("RunNested", <<s1, Len(s1.call_stack)>>)} |->
      IF ~Running(s2) THEN Ret(s2, None)
      ELSE PopFrame(s2)])])

\* pop_args: argc values, the first argument deepest.
RECURSIVE PopArgs(_, _, _)
PopArgs(s, argc, acc) ==
    IF argc = 0 THEN Ret(s, acc)
    ELSE With([p \in {Pop(s)} |->
            IF Bad(p) THEN p ELSE PopArgs(p.s, argc - 1, <<p.v>> \o acc)])

\* exec_call up to the callee's first instruction.
ExecCall(s, ins) ==
    With([args \in {PopArgs(s, ins.argc, <<>>)} |->
      IF Bad(args) THEN args.s
      ELSE IF ~Has(args.s.global_env, ins.name)
           THEN Panic(args.s, "call error: not defined")
      ELSE IF args.s.global_env[ins.name].tag # "Function"
           THEN Panic(args.s, "call error: not a function")
      ELSE EnterFunction(args.s, args.s.global_env[ins.name], args.v)])

RECURSIVE Join(_, _)
\* path.join(sep), as the sequence of the segments with sep between them.
Join(path, sep) ==
    IF Len(path) <= 1 THEN path
    ELSE <<Head(path), sep>> \o Join(Tail(path), sep)

\* format!("project/{}.rx", path.join("/"))
FilePath(path) == <<"project/">> \o Join(path, "/") \o <<".rx">>

\* import_module up to its call of run(): the file is read and parsed
\* (s.files maps a file path to the parser's output), compiled in module
\* mode, and the module's code, labels and pointer 0 replace the caller's,
\* which the host keeps until run() returns (import_stack; depth is the
\* number of call frames at the import).
ImportModule(s, path) ==
    IF ~Has(s.files, FilePath(path)) THEN Panic(s, "could not import module")
    ELSE With([cs \in {CompileModule(s.files[FilePath(path)], NewCompileState)} |->
            IF ~cs.ok THEN Panic(s, "compile error")
            ELSE [s EXCEPT !.code = cs.code, !.labels = BuildLabels(cs.code), !.pointer = 0,
                           !.import_stack =
                                Append(@, [code |-> s.code, labels |-> s.labels,
                                           pointer |-> s.pointer,
                                           depth |-> Len(s.call_stack)])]])

\* The run() that is executing was started by import_module (and not by a
\* call made after that import).
ImportInnermost(s) ==
    s.import_stack # <<>> /\ Last(s.import_stack).depth = Len(s.call_stack)

\* The rest of import_module after run() returned: the caller's code, labels
\* and pointer come back, and the dispatch loop steps past the Import.
FinishImport(s) ==
    With([frame \in {Last(s.import_stack)} |->
        [s EXCEPT !.code = frame.code, !.labels = frame.labels,
                  !.pointer = frame.pointer + 1, !.import_stack = Front(@)]])

\* run() returns, at Instruction::Return or at the end of the code. In a
\* module this is the rest of import_module; inside a call made by exec_call
\* it is the rest of call_function and exec_call (pop_frame, push the return
\* value) and the dispatch loop's increment; at top level the program ends.
ExecReturn(s) ==
    IF ImportInnermost(s) THEN FinishImport(s)
    ELSE IF s.call_stack = <<>> THEN [s EXCEPT !.status = "done"]
    ELSE With([r \in {PopFrame(s)} |-> [Push(r.s, r.v) EXCEPT !.pointer = @ + 1]])

\* ------------------------------------------------------------------ exec.rs
\* The dispatch loop's increment after a handler that did not jump.
Advance(s) == IF Running(s) THEN [s EXCEPT !.pointer = @ + 1] ELSE s

ExecLoad(s, ins) ==
    IF LookupVar(s, ins.name) = None THEN Panic(s, "undefined variable")
    ELSE With([value \in {Invoke("Force", <<s, LookupVar(s, ins.name).v>>)} |->
            IF Bad(value) THEN value.s ELSE Push(value.s, value.v)])

ExecStore(s, ins) ==
    IF ~EnsureMutableBinding(s, ins.name) THEN Panic(s, "cannot assign to immutable variable")
    ELSE With([v \in {Pop(s)} |->
            IF Bad(v) THEN v.s ELSE InsertMutable(v.s, ins.name, v.v)])

\* A variant of exec_store_immutable that rejects a name bound in any frame.
ExecStoreImmutableAnyFrame(s, ins) ==
    With([v \in {Pop(s)} |->
      IF Bad(v) THEN v.s
      ELSE IF ImmutableExists(v.s, ins.name)
           THEN Panic(v.s, "cannot reassign immutable variable")
      ELSE [v.s EXCEPT !.immutable_stack[Len(s.immutable_stack)] = Put(@, ins.name, v.v)]])

ExecStoreImmutable(s, ins) ==
    With([v \in {Pop(s)} |->
      IF Bad(v) THEN v.s
      ELSE IF Has(Last(v.s.immutable_stack), ins.name)
           THEN Panic(v.s, "cannot reassign immutable variable")
      ELSE [v.s EXCEPT !.immutable_stack[Len(s.immutable_stack)] = Put(@, ins.name, v.v)]])

\* The Lazy a reactive store installs: the frozen expression and its captures.
MakeLazy(s, ast) ==
    With([frozen \in {FreezeAst(s, ast)} |->
      LazyValue(frozen, CaptureImmutablesForAst(s, frozen))])

\* A variant of exec_store_reactive that evaluates the expression when the
\* binding is installed and stores the value.
ExecStoreReactiveEager(s, ins) ==
    IF ~EnsureMutableBinding(s, ins.name) THEN Panic(s, "cannot assign to immutable variable")
    ELSE With([v \in {Invoke("EvalValue", <<s, ins.ast>>)} |->
            IF Bad(v) THEN v.s ELSE
          With([f \in {Invoke("Force", <<v.s, v.v>>)} |->
            IF Bad(f) THEN f.s ELSE InsertMutable(f.s, ins.name, f.v)])])

ExecStoreReactive(s, ins) ==
    IF ~EnsureMutableBinding(s, ins.name) THEN Panic(s, "cannot assign to immutable variable")
    ELSE InsertMutable(s, ins.name, MakeLazy(s, ins.ast))

\* The match of add_values / sub_values / mod_values on the two forced
\* operands: a Char with an Int, or two Chars, give a Char.
ArithForced(s, o, a, b) ==
    IF (a.tag = "Char" /\ b.tag = "Int") \/ (a.tag = "Int" /\ b.tag = "Char")
    THEN MixedChar(s, o, IF a.tag = "Char" THEN a.c ELSE b.c,
                         IF a.tag = "Int" THEN a.n ELSE b.n)
    ELSE IF a.tag = "Char" /\ b.tag = "Char" THEN CharChar(s, o, a.c, b.c)
    ELSE With([ai \in {Invoke("AsInt", <<s, a>>)} |->
           IF Bad(ai) THEN ai ELSE
         With([bi \in {Invoke("AsInt", <<ai.s, b>>)} |->
           IF Bad(bi) THEN bi ELSE
         With([r \in {IntArith(bi.s, o, ai.v, bi.v)} |->
           IF Bad(r) THEN r ELSE Ret(r.s, IntV(r.v))])])])

\* add_values / sub_values / mod_values
ArithValues(s, o, lhs, rhs) ==
    With([fl \in {Invoke("Force", <<s, lhs>>)} |->
      IF Bad(fl) THEN fl ELSE
    With([fr \in {Invoke("Force", <<fl.s, rhs>>)} |->
      IF Bad(fr) THEN fr ELSE ArithForced(fr.s, o, fl.v, fr.v)])])

\* exec_add, exec_sub and exec_modulo: pop rhs, pop lhs, push the result.
ExecArith(s, o) ==
    With([rhs \in {Pop(s)} |->
      IF Bad(rhs) THEN rhs.s ELSE
    With([lhs \in {Pop(rhs.s)} |->
      IF Bad(lhs) THEN lhs.s ELSE
    With([value \in {ArithValues(lhs.s, o, lhs.v, rhs.v)} |->
      IF Bad(value) THEN value.s ELSE Push(value.s, value.v)])])])

\* pop_int
PopInt(s) ==
    With([v \in {Pop(s)} |-> IF Bad(v) THEN v ELSE Invoke("AsInt", <<v.s, v.v>>)])

\* exec_mul, exec_div and exec_cmp: a = pop_int, b = pop_int, push f(b, a).
ExecIntOp(s, o) ==
    With([a \in {PopInt(s)} |->
      IF Bad(a) THEN a.s ELSE
    With([b \in {PopInt(a.s)} |->
      IF Bad(b) THEN b.s ELSE
    With([r \in {IntArith(b.s, o, b.v, a.v)} |->
      IF Bad(r) THEN r.s ELSE Push(r.s, IntV(r.v))])])])

\* The Operator an arithmetic or comparison instruction stands for.
InstrOperator(op) ==
    CASE op = "Add" -> "Addition"
      [] op = "Sub" -> "Subtraction"
      [] op = "Mul" -> "Multiplication"
      [] op = "Div" -> "Division"
      [] OTHER -> op

CmpOps == {"Greater", "Less", "Equal", "NotEqual", "GreaterEqual", "LessEqual", "And", "Or"}

\* ------------------------------------------------------------------ runtime.rs
RECURSIVE ForceChars(_, _, _)
\* print_value's loop over an array: the chars, or None at the first element
\* that does not force to a Char.
ForceChars(s, elems, acc) ==
    IF elems = <<>> THEN Ret(s, Some(acc))
    ELSE With([f \in {Invoke("Force", <<s, Head(elems)>>)} |->
            IF Bad(f) THEN f
            ELSE IF f.v.tag = "Char" THEN ForceChars(f.s, Tail(elems), Append(acc, f.v.c))
            ELSE Ret(f.s, None)])

Write(s, item) == [s EXCEPT !.output = Append(@, item)]

\* char::from_u32(c) is Some: c is a Unicode scalar value (no surrogate, at
\* most 0x10FFFF; a held code below 0 stands for one from 2^31 on).
ValidScalar(c) == (c >= 0 /\ c < 55296) \/ (c > 57343 /\ c <= 1114111)

\* print!("{}", char::from_u32(c).unwrap()) for each c of chars in turn: the
\* chars before the first one that is no scalar value are written, then the
\* unwrap panics.
WriteChars(s, chars) ==
    IF \A i \in 1..Len(chars) : ValidScalar(chars[i]) THEN Write(s, [chars |-> chars])
    ELSE Panic(Write(s, [chars |-> SubSeq(chars, 1,
                                          (CHOOSE i \in 1..Len(chars) :
                                              /\ ~ValidScalar(chars[i])
                                              /\ \A j \in 1..(i - 1) : ValidScalar(chars[j]))
                                          - 1)]),
               "unwrap on a None value")

\* The match of print_value on the forced value.
PrintForced(s, v) ==
    CASE v.tag = "Char" -> WriteChars(s, <<v.c>>)
      [] v.tag = "Int" -> Write(s, [int |-> v.n])
      [] v.tag = "ArrayRef" ->
            With([chars \in {ForceChars(s, At(s.array_heap, v.id), <<>>)} |->
              IF Bad(chars) THEN chars.s
              ELSE IF chars.v # None THEN WriteChars(chars.s, chars.v.v)
              ELSE Write(chars.s, [int |-> Len(At(chars.s.array_heap, v.id))])])
      [] OTHER -> Panic(s, "cannot print value")

\* print_value
PrintValue(s, v, newline) ==
    With([f \in {Invoke("Force", <<s, v>>)} |->
      IF Bad(f) THEN f.s ELSE
    With([s1 \in {PrintForced(f.s, f.v)} |->
      IF newline /\ Running(s1) THEN Write(s1, [nl |-> TRUE]) ELSE s1])])

ExecPrintln(s, newline) ==
    With([v \in {Pop(s)} |-> IF Bad(v) THEN v.s ELSE PrintValue(v.s, v.v, newline)])

ExecArrayNew(s) ==
    With([size_val \in {Pop(s)} |->
      IF Bad(size_val) THEN size_val.s ELSE
    With([n \in {AsUsizeNonneg(size_val.s, size_val.v)} |->
      IF Bad(n) THEN n.s
      ELSE Push(AllocArray(n.s, n.v), ArrayRef(Len(n.s.array_heap)))])])

ExecArrayGet(s) ==
    With([idx_val \in {Pop(s)} |->
      IF Bad(idx_val) THEN idx_val.s ELSE
    With([idx \in {AsUsizeNonneg(idx_val.s, idx_val.v)} |->
      IF Bad(idx) THEN idx.s ELSE
    With([arr_val \in {Pop(idx.s)} |->
      IF Bad(arr_val) THEN arr_val.s ELSE
    With([arr \in {Invoke("Force", <<arr_val.s, arr_val.v>>)} |->
      IF Bad(arr) THEN arr.s
      ELSE IF arr.v.tag # "ArrayRef" THEN Panic(arr.s, "type error: index non-array")
      ELSE IF idx.v >= Len(At(arr.s.array_heap, arr.v.id))
           THEN Panic(arr.s, "array index out of bounds")
      ELSE
    With([elem \in {Invoke("Force", <<arr.s, At(At(arr.s.array_heap, arr.v.id), idx.v)>>)} |->
      IF Bad(elem) THEN elem.s ELSE Push(elem.s, elem.v)])])])])])

\* The tail shared by exec_store_index and exec_store_index_reactive: look
\* the name up, force it, check the bound, write the element. Neither
\* consults array_immutables.
StoreIndexInto(s, name, idx, val) ==
    IF LookupVar(s, name) = None THEN Panic(s, "undefined variable")
    ELSE With([arr \in {Invoke("Force", <<s, LookupVar(s, name).v>>)} |->
      IF Bad(arr) THEN arr.s
      ELSE IF arr.v.tag # "ArrayRef" THEN Panic(arr.s, "type error: StoreIndex on non-array")
      ELSE IF idx >= Len(At(arr.s.array_heap, arr.v.id))
           THEN Panic(arr.s, "array assignment out of bounds")
      ELSE [arr.s EXCEPT !.array_heap[arr.v.id + 1][idx + 1] = val]])

ExecStoreIndex(s, ins) ==
    IF ~EnsureMutableBinding(s, ins.name) THEN Panic(s, "cannot assign to immutable variable")
    ELSE
    With([val \in {Pop(s)} |->
      IF Bad(val) THEN val.s ELSE
    With([idx_val \in {Pop(val.s)} |->
      IF Bad(idx_val) THEN idx_val.s ELSE
    With([idx \in {AsUsizeNonneg(idx_val.s, idx_val.v)} |->
      IF Bad(idx) THEN idx.s
      ELSE StoreIndexInto(idx.s, ins.name, idx.v, val.v)])])])

ExecStoreIndexReactive(s, ins) ==
    IF ~EnsureMutableBinding(s, ins.name) THEN Panic(s, "cannot assign to immutable variable")
    ELSE
    With([idx_val \in {Pop(s)} |->
      IF Bad(idx_val) THEN idx_val.s ELSE
    With([idx \in {AsUsizeNonneg(idx_val.s, idx_val.v)} |->
      IF Bad(idx) THEN idx.s
      ELSE StoreIndexInto(idx.s, ins.name, idx.v, MakeLazy(idx.s, ins.ast))])])

RECURSIVE ForceToStorable(_, _)
\* force_to_storable: an LValue is read through, a Lazy is kept.
ForceToStorable(s, v) ==
    IF v.tag = "LValue" THEN
        With([l \in {ReadLvalue(s, v)} |->
            IF Bad(l) THEN l ELSE ForceToStorable(l.s, l.v)])
    ELSE Ret(s, v)

\* exec_array_lvalue: the base is forced, so it is an array here (the
\* handler's LValue arms are never taken: force never returns an LValue).
ExecArrayLValue(s) ==
    With([idx_val \in {Pop(s)} |->
      IF Bad(idx_val) THEN idx_val.s ELSE
    With([idx \in {AsUsizeNonneg(idx_val.s, idx_val.v)} |->
      IF Bad(idx) THEN idx.s ELSE
    With([base \in {Pop(idx.s)} |->
      IF Bad(base) THEN base.s ELSE
    With([base_val \in {Invoke("Force", <<base.s, base.v>>)} |->
      IF Bad(base_val) THEN base_val.s
      ELSE IF base_val.v.tag = "ArrayRef"
           THEN Push(base_val.s, ArrayElem(base_val.v.id, idx.v))
      ELSE Panic(base_val.s, "invalid ArrayLValue base")])])])])

ExecFieldLValue(s, ins) ==
    With([base \in {Pop(s)} |->
      IF Bad(base) THEN base.s ELSE
    With([f \in {Invoke("Force", <<base.s, base.v>>)} |->
      IF Bad(f) THEN f.s
      ELSE IF f.v.tag = "StructRef" THEN Push(f.s, StructField(f.v.id, ins.name))
      ELSE Panic(f.s, "invalid FieldLValue base")])])

\* A variant of the checked write that drops a write past the end of the
\* array instead of failing.
WriteThroughDropping(s, target, stored, mark) ==
    IF target.tag # "LValue" THEN Panic(s, "StoreThrough target is not an lvalue")
    ELSE IF target.kind = "ArrayElem" THEN
        IF target.array_id >= Len(s.array_immutables)
            THEN Panic(s, "index out of bounds")
        ELSE IF target.index \in At(s.array_immutables, target.array_id)
            THEN Panic(s, "cannot reassign immutable array element")
        ELSE IF target.index >= Len(At(s.array_heap, target.array_id))
            THEN s
        ELSE [s EXCEPT !.array_heap[target.array_id + 1][target.index + 1] = stored]
    ELSE
        LET inst == At(s.heap, target.struct_id)
        IN IF ~Has(inst.fields, target.field) THEN Panic(s, "unknown struct field")
           ELSE IF target.field \in inst.immutables
                THEN Panic(s, "cannot assign to immutable field")
           ELSE [s EXCEPT !.heap[target.struct_id + 1] =
                    [fields |-> Put(inst.fields, target.field, stored),
                     immutables |-> IF mark THEN inst.immutables \cup {target.field}
                                    ELSE inst.immutables]]

\* The checked write of exec_store_through and exec_store_through_reactive.
\* mark is TRUE for the reactive store, which also adds a record field to
\* the instance's immutable set.
WriteThrough(s, target, stored, mark) ==
    IF target.tag # "LValue" THEN Panic(s, "StoreThrough target is not an lvalue")
    ELSE IF target.kind = "ArrayElem" THEN
        IF target.array_id >= Len(s.array_immutables)
            THEN Panic(s, "index out of bounds")
        ELSE IF target.index \in At(s.array_immutables, target.array_id)
            THEN Panic(s, "cannot reassign immutable array element")
        ELSE IF target.index >= Len(At(s.array_heap, target.array_id))
            THEN Panic(s, "array assignment out of bounds")
        ELSE [s EXCEPT !.array_heap[target.array_id + 1][target.index + 1] = stored]
    ELSE
        LET inst == At(s.heap, target.struct_id)
        IN IF ~Has(inst.fields, target.field) THEN Panic(s, "unknown struct field")
           ELSE IF target.field \in inst.immutables
                THEN Panic(s, "cannot assign to immutable field")
           ELSE [s EXCEPT !.heap[target.struct_id + 1] =
                    [fields |-> Put(inst.fields, target.field, stored),
                     immutables |-> IF mark THEN inst.immutables \cup {target.field}
                                    ELSE inst.immutables]]

ExecStoreThrough(s) ==
    With([value \in {Pop(s)} |->
      IF Bad(value) THEN value.s ELSE
    With([target \in {Pop(value.s)} |->
      IF Bad(target) THEN target.s ELSE
    With([stored \in {ForceToStorable(target.s, value.v)} |->
      IF Bad(stored) THEN stored.s
      ELSE WriteThrough(stored.s, target.v, stored.v, FALSE)])])])

ExecStoreThroughReactive(s, ins) ==
    With([target \in {Pop(s)} |->
      IF Bad(target) THEN target.s
      ELSE WriteThrough(target.s, target.v, MakeLazy(target.s, ins.ast), TRUE)])

\* The write of store_through_immutable: a record field must hold
\* Uninitialized, an array index must be unmarked (its bound is not checked
\* before the write).
WriteThroughImmutable(s, t, stored) ==
    IF t.tag # "LValue" THEN Panic(s, "immutable assignment only allowed on lvalues")
    ELSE IF t.kind = "StructField" THEN
        LET inst == At(s.heap, t.struct_id)
        IN IF ~Has(inst.fields, t.field) THEN Panic(s, "unknown struct field")
           ELSE IF inst.fields[t.field] # Uninitialized
                THEN Panic(s, "cannot reassign immutable field")
           ELSE [s EXCEPT !.heap[t.struct_id + 1] =
                    [fields |-> Put(inst.fields, t.field, stored),
                     immutables |-> inst.immutables \cup {t.field}]]
    ELSE IF t.array_id >= Len(s.array_immutables)
        THEN Panic(s, "index out of bounds")
    ELSE IF t.index \in At(s.array_immutables, t.array_id)
        THEN Panic(s, "cannot reassign immutable array element")
    ELSE IF t.index >= Len(At(s.array_heap, t.array_id))
        THEN Panic(s, "index out of bounds")
    ELSE [s EXCEPT !.array_heap[t.array_id + 1][t.index + 1] = stored,
                   !.array_immutables[t.array_id + 1] = @ \cup {t.index}]

\* store_through_immutable
StoreThroughImmutable(s) ==
    With([value \in {Pop(s)} |->
      IF Bad(value) THEN value.s ELSE
    With([target \in {Pop(value.s)} |->
      IF Bad(target) THEN target.s ELSE
    With([stored \in {ForceToStorable(target.s, value.v)} |->
      IF Bad(stored) THEN stored.s
      ELSE WriteThroughImmutable(stored.s, target.v, stored.v)])])])

\* A variant of clone_value that returns the handle it is given.
CloneValueShare(s, v) ==
    IF v.tag = "LValue" THEN Ret(Panic(s, "cannot clone lvalue"), None) ELSE Ret(s, v)

\* clone_value: an array or record is copied into a new arena slot (one
\* level deep: the elements are copied as they are).
CloneValue(s, v) ==
    CASE v.tag = "ArrayRef" /\ v.id >= Len(s.array_immutables) ->
            Ret(Panic(s, "index out of bounds"), None)
      [] v.tag = "ArrayRef" ->
            Ret([s EXCEPT !.array_heap = Append(@, At(s.array_heap, v.id)),
                          !.array_immutables = Append(@, At(s.array_immutables, v.id))],
                ArrayRef(Len(s.array_heap)))
      [] v.tag = "StructRef" ->
            Ret([s EXCEPT !.heap = Append(@, At(s.heap, v.id))], StructRef(Len(s.heap)))
      [] v.tag = "LValue" -> Ret(Panic(s, "cannot clone lvalue"), None)
      [] OTHER -> Ret(s, v)

\* The first loop of instantiate_struct: every declared field gets a slot.
InitialFields(fields) ==
    [name \in {fields[i].name : i \in 1..Len(fields)} |->
        LET last == CHOOSE i \in 1..Len(fields) :
                        /\ fields[i].name = name
                        /\ \A j \in (i + 1)..Len(fields) : fields[j].name # name
        IN IF fields[last].mode = "Reactive" THEN LazyValue(Number(0), EmptyMap)
           ELSE Uninitialized]

InitialImmutables(fields) ==
    {fields[i].name : i \in {j \in 1..Len(fields) : fields[j].mode = "Immutable"}}

\* A variant of the initializer's value that evaluates a reactive
\* initializer at instantiation.
InitializerValueEager(s, id, fd) ==
    With([v \in {Invoke("EvalReactiveFieldInStruct", <<s, id, fd.e>>)} |->
      IF Bad(v) THEN v ELSE Invoke("Force", <<v.s, v.v>>)])

\* The value of one initializer in instantiate_struct's second loop.
InitializerValue(s, id, fd) ==
    IF fd.mode = "Reactive" THEN Ret(s, LazyValue(fd.e, EmptyMap))
    ELSE Invoke("EvalReactiveFieldInStruct", <<s, id, fd.e>>)

RECURSIVE ApplyInitializers(_, _, _)
\* The second loop of instantiate_struct: mutable and immutable initializers
\* are evaluated now, a reactive one is stored as a Lazy with no captures.
ApplyInitializers(s, id, fields) ==
    IF fields = <<>> THEN s
    ELSE IF Head(fields).mode = "Bare" THEN ApplyInitializers(s, id, Tail(fields))
    ELSE
    With([value \in {InitializerValue(s, id, Head(fields))} |->
      IF Bad(value) THEN value.s ELSE
    With([stored \in {ForceToStorable(value.s, value.v)} |->
      IF Bad(stored) THEN stored.s ELSE
    With([cloned \in {CloneValue(stored.s, stored.v)} |->
      IF Bad(cloned) THEN cloned.s
      ELSE ApplyInitializers(
              [cloned.s EXCEPT !.heap[id + 1].fields = Put(@, Head(fields).name, cloned.v)],
              id, Tail(fields))])])])

\* instantiate_struct
InstantiateStruct(s, fields) ==
    Ret(ApplyInitializers(
            [s EXCEPT !.heap = Append(@, [fields |-> InitialFields(fields),
                                          immutables |-> InitialImmutables(fields)])],
            Len(s.heap), fields),
        StructRef(Len(s.heap)))

ExecNewStruct(s, ins) ==
    IF ~Has(s.struct_defs, ins.name) THEN Panic(s, "unknown struct type")
    ELSE With([inst \in {InstantiateStruct(s, s.struct_defs[ins.name])} |->
            IF Bad(inst) THEN inst.s ELSE Push(inst.s, inst.v)])

\* The rest of exec_field_get once the object is forced to StructRef(id).
FieldGetOf(s, id, field) ==
    LET inst == At(s.heap, id)
    IN IF ~Has(inst.fields, field) THEN Panic(s, "missing struct field")
       ELSE IF inst.fields[field] = Uninitialized
            THEN Panic(s, "use of uninitialized struct field")
       ELSE With([out \in {Invoke("ForceStructField", <<s, id, inst.fields[field]>>)} |->
              IF Bad(out) THEN out.s ELSE Push(out.s, out.v)])

ExecFieldGet(s, ins) ==
    With([obj \in {Pop(s)} |->
      IF Bad(obj) THEN obj.s ELSE
    With([f \in {Invoke("Force", <<obj.s, obj.v>>)} |->
      IF Bad(f) THEN f.s
      ELSE IF f.v.tag # "StructRef" THEN Panic(f.s, "type error: FieldGet on non-struct")
      ELSE FieldGetOf(f.s, f.v.id, ins.name)])])

\* The rest of exec_field_set once the object is forced to StructRef(id).
FieldSetOf(s, id, field, val) ==
    LET inst == At(s.heap, id)
    IN IF ~Has(inst.fields, field) THEN Panic(s, "unknown struct field")
       ELSE IF field \in inst.immutables THEN Panic(s, "cannot assign to immutable field")
       ELSE With([stored \in {ForceToStorable(s, val)} |->
              IF Bad(stored) THEN stored.s
              ELSE [stored.s EXCEPT !.heap[id + 1].fields = Put(@, field, stored.v)]])

ExecFieldSet(s, ins) ==
    With([val \in {Pop(s)} |->
      IF Bad(val) THEN val.s ELSE
    With([obj \in {Pop(val.s)} |->
      IF Bad(obj) THEN obj.s ELSE
    With([f \in {Invoke("Force", <<obj.s, obj.v>>)} |->
      IF Bad(f) THEN f.s
      ELSE IF f.v.tag # "StructRef" THEN Panic(f.s, "type error: FieldSet on non-struct")
      ELSE FieldSetOf(f.s, f.v.id, ins.name, val.v)])])])

\* exec_field_set_reactive: no check that the field exists.
ExecFieldSetReactive(s, ins) ==
    With([obj \in {Pop(s)} |->
      IF Bad(obj) THEN obj.s ELSE
    With([f \in {Invoke("Force", <<obj.s, obj.v>>)} |->
      IF Bad(f) THEN f.s
      ELSE IF f.v.tag # "StructRef"
           THEN Panic(f.s, "type error: FieldSetReactive on non-struct")
      ELSE IF ins.name \in At(f.s.heap, f.v.id).immutables
           THEN Panic(f.s, "cannot reactively assign to immutable field")
      ELSE [f.s EXCEPT !.heap[f.v.id + 1].fields =
                          Put(@, ins.name, MakeLazy(f.s, ins.ast))]])])

\* ------------------------------------------------------------------ control
\* A variant of PopImmutableContext without the check of the root frame.
ExecPopImmutableContextAlways(s) == PopScope(s)

ExecPopImmutableContext(s) ==
    IF Len(s.immutable_stack) <= 1 THEN Panic(s, "cannot pop root immutable context")
    ELSE PopScope(s)

\* A variant of ClearImmutableContext that leaves the frame as it is.
ExecClearImmutableContextKeep(s) == s

ExecClearImmutableContext(s) ==
    [s EXCEPT !.immutable_stack[Len(s.immutable_stack)] = EmptyMap]

\* Jump: the pointer becomes the label's offset and is not incremented.
ExecJump(s, ins) ==
    IF ~Has(s.labels, ins.label) THEN Panic(s, "unknown label")
    ELSE [s EXCEPT !.pointer = s.labels[ins.label]]

ExecJumpIfZero(s, ins) ==
    With([n \in {PopInt(s)} |->
      IF Bad(n) THEN n.s
      ELSE IF n.v = 0 THEN ExecJump(n.s, ins)
      ELSE Advance(n.s)])

\* A variant of the Import handler that imports the module whether or not
\* its name is in imported_modules.
ExecImportAlways(s, ins) ==
    ImportModule([s EXCEPT !.imported_modules = @ \cup {Join(ins.path, ".")}], ins.path)

\* Instruction::Import: a module is imported once per joined name.
ExecImport(s, ins) ==
    IF Join(ins.path, ".") \in s.imported_modules THEN Advance(s)
    ELSE ImportModule([s EXCEPT !.imported_modules = @ \cup {Join(ins.path, ".")}],
                      ins.path)

\* The handler of instruction ins (the match of run()'s dispatch loop),
\* followed by the loop's increment where the handler did not jump.
Execute(s, ins) ==
    CASE ins.op = "Push" -> Advance(Push(s, IntV(ins.n)))
      [] ins.op = "PushChar" -> Advance(Push(s, CharV(ins.n)))
      [] ins.op = "Load" -> Advance(ExecLoad(s, ins))
      [] ins.op = "Store" -> Advance(ExecStore(s, ins))
      [] ins.op = "StoreImmutable" -> Advance(ExecStoreImmutable(s, ins))
      [] ins.op = "StoreReactive" -> Advance(ExecStoreReactive(s, ins))
      [] ins.op \in {"Add", "Sub", "Modulo"} -> Advance(ExecArith(s, InstrOperator(ins.op)))
      [] ins.op \in {"Mul", "Div"} -> Advance(ExecIntOp(s, InstrOperator(ins.op)))
      [] ins.op \in CmpOps -> Advance(ExecIntOp(s, InstrOperator(ins.op)))
      [] ins.op = "Println" -> Advance(ExecPrintln(s, TRUE))
      [] ins.op = "Print" -> Advance(ExecPrintln(s, FALSE))
      [] ins.op = "ArrayNew" -> Advance(ExecArrayNew(s))
      [] ins.op = "ArrayGet" -> Advance(ExecArrayGet(s))
      [] ins.op = "StoreIndex" -> Advance(ExecStoreIndex(s, ins))
      [] ins.op = "StoreIndexReactive" -> Advance(ExecStoreIndexReactive(s, ins))
      [] ins.op = "StoreFunction" ->
            Advance([s EXCEPT !.global_env =
                         Put(@, ins.name, FunctionV(ins.params, ins.body))])
      [] ins.op = "Call" -> ExecCall(s, ins)
      [] ins.op = "StoreStruct" ->
            Advance([s EXCEPT !.struct_defs = Put(@, ins.name, ins.fields)])
      [] ins.op = "NewStruct" -> Advance(ExecNewStruct(s, ins))
      [] ins.op = "FieldGet" -> Advance(ExecFieldGet(s, ins))
      [] ins.op = "FieldSet" -> Advance(ExecFieldSet(s, ins))
      [] ins.op = "FieldSetReactive" -> Advance(ExecFieldSetReactive(s, ins))
      [] ins.op = "PushImmutableContext" -> Advance(PushScope(s, EmptyMap))
      [] ins.op = "PopImmutableContext" -> Advance(ExecPopImmutableContext(s))
      [] ins.op = "ClearImmutableContext" -> Advance(ExecClearImmutableContext(s))
      [] ins.op = "Label" -> Advance(s)
      [] ins.op = "Jump" -> ExecJump(s, ins)
      [] ins.op = "JumpIfZero" -> ExecJumpIfZero(s, ins)
      [] ins.op = "Return" -> ExecReturn(s)
      [] ins.op = "ArrayLValue" -> Advance(ExecArrayLValue(s))
      [] ins.op = "FieldLValue" -> Advance(ExecFieldLValue(s, ins))
      [] ins.op = "StoreThrough" -> Advance(ExecStoreThrough(s))
      [] ins.op = "StoreThroughReactive" -> Advance(ExecStoreThroughReactive(s, ins))
      [] ins.op = "StoreThroughImmutable" -> Advance(StoreThroughImmutable(s))
      [] ins.op = "Import" -> ExecImport(s, ins)
      [] OTHER -> Panic(s, "unsupported instruction")

\* One iteration of run()'s dispatch loop: fetch the instruction at the
\* pointer and execute it; past the end of the code, run() returns.
Step(s) ==
    IF s.pointer >= Len(s.code) THEN ExecReturn(s)
    ELSE Execute(s, At(s.code, s.pointer))

\* The application of a host function to its arguments.
Invoke(fn, a) ==
    CASE fn = "Force" -> Force(a[1], a[2])
      [] fn = "ForceStructField" -> ForceStructField(a[1], a[2], a[3])
      [] fn = "EvalReactiveFieldInStruct" -> EvalReactiveFieldInStruct(a[1], a[2], a[3])
      [] fn = "EvalValue" -> EvalValue(a[1], a[2])
      [] fn = "EvalArgs" -> EvalArgs(a[1], a[2], a[3])
      [] fn = "AsInt" -> AsInt(a[1], a[2])
      [] fn = "CallFunction" -> CallFunction(a[1], a[2], a[3])
      [] fn = "RunNested" -> RunNested(a[1], a[2])
      [] fn = "Step" -> Step(a[1])
      [] fn = "ImportInnermost" -> ImportInnermost(a[1])

\* ------------------------------------------------------------------ the machine
VARIABLES
    stack,            \* operand stack
    global_env,       \* global mutable environment
    local_env,        \* Option: the current call's mutable environment
    immutable_stack,  \* immutable scopes, innermost last
    pointer,          \* instruction pointer (0-based)
    code,             \* the active instruction array
    labels,           \* label table of code
    call_stack,       \* saved CallFrames
    struct_defs,      \* struct name -> field declarations
    heap,             \* record arena
    array_heap,       \* array arena
    array_immutables, \* per array, the element-immutable indices
    imported_modules, \* the joined names of the modules imported so far
    import_stack,     \* the callers' code, labels and pointer kept by import_module
    files,            \* the files under project/: file path -> parsed program
    output,           \* what print_value wrote
    status,           \* "running", "done", "panic" or "diverged"
    err,              \* the panic message
    prog,             \* the input this run was started on
    prev              \* history: the VM before the last instruction, or None

vars == <<stack, global_env, local_env, immutable_stack, pointer, code, labels,
          call_stack, struct_defs, heap, array_heap, array_immutables,
          imported_modules, import_stack, files, output, status, err, prog, prev>>

\* The VM as the record the handlers work on.
VM == [stack |-> stack, global_env |-> global_env, local_env |-> local_env,
       immutable_stack |-> immutable_stack, pointer |-> pointer, code |-> code,
       labels |-> labels, call_stack |-> call_stack, struct_defs |-> struct_defs,
       heap |-> heap, array_heap |-> array_heap, array_immutables |-> array_immutables,
       imported_modules |-> imported_modules, import_stack |-> import_stack,
       files |-> files,
       output |-> output, status |-> status, err |-> err, fuel |-> MaxFuel,
       overflow_checks |-> prog.checks]

\* VM::new(code)
NewVM(c) == [stack |-> <<>>, global_env |-> EmptyMap, local_env |-> None,
             immutable_stack |-> <<EmptyMap>>, pointer |-> 0, code |-> c,
             labels |-> BuildLabels(c), call_stack |-> <<>>, struct_defs |-> EmptyMap,
             heap |-> <<>>, array_heap |-> <<>>, array_immutables |-> <<>>,
             imported_modules |-> {}, import_stack |-> <<>>, files |-> EmptyMap,
             output |-> <<>>, status |-> "running", err |-> "", fuel |-> MaxFuel,
             overflow_checks |-> FALSE]

\* The variables take the fields of s; prev keeps the state s was computed from.
Commit(s) ==
    /\ stack' = s.stack
    /\ global_env' = s.global_env
    /\ local_env' = s.local_env
    /\ immutable_stack' = s.immutable_stack
    /\ pointer' = s.pointer
    /\ code' = s.code
    /\ labels' = s.labels
    /\ call_stack' = s.call_stack
    /\ struct_defs' = s.struct_defs
    /\ heap' = s.heap
    /\ array_heap' = s.array_heap
    /\ array_immutables' = s.array_immutables
    /\ imported_modules' = s.imported_modules
    /\ import_stack' = s.import_stack
    /\ files' = files
    /\ output' = s.output
    /\ status' = s.status
    /\ err' = s.err
    /\ prog' = prog
    /\ prev' = VM

\* run(): the loop runs while pointer < code.len().
Fetching == status = "running" /\ pointer < Len(code)

CurIns == At(code, pointer)

\* The VM after the handler of the instruction at the pointer.
Stepped == Invoke("Step", <<VM>>)

\* ------------------------------------------------------------------ inputs
\* The runs start from small source programs (as syntax trees, the parser's
\* output) over input values a, b, and from two instruction streams.
Vals == 0..MaxVal

Main(body) == FuncDef("main", <<>>, body)

\* A write of value e to base.field, by the instruction `kind` names.
WriteField(kind, base, field, e) ==
    CASE kind = "StoreThrough" -> AssignTarget(FieldAccess(base, field), e)
      [] kind = "StoreThroughReactive" -> ReactiveAssignTarget(FieldAccess(base, field), e)
      [] kind = "StoreThroughImmutable" -> ImmutableAssignTarget(FieldAccess(base, field), e)
      [] kind = "FieldSet" -> FieldAssign(base, field, e, "Normal")
      [] kind = "FieldSetReactive" -> FieldAssign(base, field, e, "Reactive")

\* A write of value e to base[i].
WriteElem(kind, base, i, e) ==
    CASE kind = "StoreThrough" -> AssignTarget(Index(base, Number(i)), e)
      [] kind = "StoreThroughReactive" -> ReactiveAssignTarget(Index(base, Number(i)), e)
      [] kind = "StoreThroughImmutable" -> ImmutableAssignTarget(Index(base, Number(i)), e)

\* func main() { i = 0; loop { m := i; if i >= a { break }; i = i + 1 }; println i * 2 }
LoopBreak(a) ==
    Program(<<Main(<<
        Assign("i", Number(0)),
        Loop(<<ImmutableAssign("m", Var("i")),
               IfElse(Operation(Var("i"), "GreaterEqual", Number(a)), <<Break>>, <<>>),
               Assign("i", Operation(Var("i"), "Addition", Number(1)))>>),
        Println(Operation(Var("i"), "Multiplication", Number(2)))>>)>>)

\* func main() {}  x := a; x = b
ImmTop(a, b) ==
    Program(<<Main(<<>>), ImmutableAssign("x", Number(a)), Assign("x", Number(b))>>)

\* func main() { x := a; x = b; println x }
ImmFn(a, b) ==
    Program(<<Main(<<ImmutableAssign("x", Number(a)), Assign("x", Number(b)),
                     Println(Var("x"))>>)>>)

\* struct P { x := a; y = 0; z }
\* func main() { p = struct P; <write p.z>; println p.y; <write p.x> }
FieldWrite(kind, a, b) ==
    Program(<<
        StructDef("P", <<FieldDecl("x", "Immutable", Number(a)),
                         FieldDecl("y", "Mutable", Number(0)),
                         FieldDecl("z", "Bare", Number(0))>>),
        Main(<<Assign("p", StructNew("P")),
               WriteField(kind, Var("p"), "z", Number(b)),
               Println(FieldAccess(Var("p"), "y")),
               WriteField(kind, Var("p"), "x", Number(a + 1))>>)>>)

\* struct S { a; b := a }   func main() { s = struct S; s.b := a; println s.b }
UninitImm(a) ==
    Program(<<
        StructDef("S", <<FieldDecl("a", "Bare", Number(0)),
                         FieldDecl("b", "Immutable", Var("a"))>>),
        Main(<<Assign("s", StructNew("S")),
               ImmutableAssignTarget(FieldAccess(Var("s"), "b"), Number(a)),
               Println(FieldAccess(Var("s"), "b"))>>)>>)

\* func main() { arr = [2]; arr[0] := a; println arr[0]; <write arr[1]>; <write arr[0]> }
ElemWrite(kind, a, b) ==
    Program(<<Main(<<
        Assign("arr", ArrayNew(Number(2))),
        ImmutableAssignTarget(Index(Var("arr"), Number(0)), Number(a)),
        Println(Index(Var("arr"), Number(0))),
        WriteElem(kind, Var("arr"), 1, Number(b)),
        WriteElem(kind, Var("arr"), 0, Number(a + 1))>>)>>)

\* An instruction stream for VM::new: arr = [1]; arr[0] := a; then a
\* store-index (or store-index-reactive) of a + 1 to arr[0].
StoreIndexCode(kind, a) ==
    CompileAll(<<Assign("arr", ArrayNew(Number(1))),
                 ImmutableAssignTarget(Index(Var("arr"), Number(0)), Number(a))>>,
               NewCompileState).code
    \o (IF kind = "StoreIndex"
        THEN <<InsN("Push", 0), InsN("Push", a + 1), InsName("StoreIndex", "arr")>>
        ELSE <<InsN("Push", 0), InsAst("StoreIndexReactive", "arr", Number(a + 1))>>)

\* struct T { a = <a>; b = f(a) }
\* func f(p) { t = p; return t + 1 }
\* func main() { s = struct T; s.a = 5; println s.b }
InitCall(a) ==
    Program(<<
        StructDef("T", <<FieldDecl("a", "Mutable", Number(a)),
                         FieldDecl("b", "Mutable", CallE("f", <<Var("a")>>))>>),
        FuncDef("f", <<"p">>, <<Assign("t", Var("p")),
                                Return(Some(Operation(Var("t"), "Addition", Number(1))))>>),
        Main(<<Assign("s", StructNew("T")),
               AssignTarget(FieldAccess(Var("s"), "a"), Number(5)),
               Println(FieldAccess(Var("s"), "b"))>>)>>)

\* struct U { a; c ::= a }
\* FieldGet: func main() { s = struct U; x = s.a; println 1 }
\* Reactive: func main() { s = struct U; x = s.c; println 1 }
\* Access:   func main() { s = struct U; y ::= s.a; x = y; println 1 }
\* Set:      func main() { s = struct U; s.a = <a>; x = s.c; println x }
UninitRead(kind, a) ==
    Program(<<
        StructDef("U", <<FieldDecl("a", "Bare", Number(0)),
                         FieldDecl("c", "Reactive", Var("a"))>>),
        Main(<<Assign("s", StructNew("U"))>>
             \o (CASE kind = "FieldGet" -> <<Assign("x", FieldAccess(Var("s"), "a"))>>
                   [] kind = "Reactive" -> <<Assign("x", FieldAccess(Var("s"), "c"))>>
                   [] kind = "Access" ->
                        <<ReactiveAssign("y", FieldAccess(Var("s"), "a")),
                          Assign("x", Var("y"))>>
                   [] kind = "Set" ->
                        <<AssignTarget(FieldAccess(Var("s"), "a"), Number(a)),
                          Assign("x", FieldAccess(Var("s"), "c"))>>)
             \o <<Println(IF kind = "Set" THEN Var("x") ELSE Number(1))>>)>>)

\* struct U { a; c ::= a }  struct W { z }
\* Field:    func main() { w = struct W; w.z := <a>; w.z := <b + 1>; println w.z }
\* Elem:     func main() { arr = [2]; arr[1] := <a>; arr[1] := <b + 1>; println arr[1] }
\* Sentinel: func main() { s = struct U; w = struct W; w.z := s.c; w.z := <b + 1>; println w.z }
WriteOnce(kind, a, b) ==
    Program(<<
        StructDef("U", <<FieldDecl("a", "Bare", Number(0)),
                         FieldDecl("c", "Reactive", Var("a"))>>),
        StructDef("W", <<FieldDecl("z", "Bare", Number(0))>>),
        Main(CASE kind = "Field" ->
                    <<Assign("w", StructNew("W")),
                      ImmutableAssignTarget(FieldAccess(Var("w"), "z"), Number(a)),
                      ImmutableAssignTarget(FieldAccess(Var("w"), "z"), Number(b + 1)),
                      Println(FieldAccess(Var("w"), "z"))>>
               [] kind = "Elem" ->
                    <<Assign("arr", ArrayNew(Number(2))),
                      ImmutableAssignTarget(Index(Var("arr"), Number(1)), Number(a)),
                      ImmutableAssignTarget(Index(Var("arr"), Number(1)), Number(b + 1)),
                      Println(Index(Var("arr"), Number(1)))>>
               [] kind = "Sentinel" ->
                    <<Assign("s", StructNew("U")),
                      Assign("w", StructNew("W")),
                      ImmutableAssignTarget(FieldAccess(Var("w"), "z"),
                                            FieldAccess(Var("s"), "c")),
                      ImmutableAssignTarget(FieldAccess(Var("w"), "z"), Number(b + 1)),
                      Println(FieldAccess(Var("w"), "z"))>>)>>)

\* New: func main() { arr = [<a> - 1]; println 1 }
\* else: func main() { arr = [<b>]; <read or write of arr[<a> - 1]>; println 1 }
Bounds(kind, a, b) ==
    Program(<<Main(
        IF kind = "New"
        THEN <<Assign("arr", ArrayNew(Operation(Number(a), "Subtraction", Number(1)))),
               Println(Number(1))>>
        ELSE <<Assign("arr", ArrayNew(Number(b))),
               CASE kind = "ArrayGet" ->
                        Println(Index(Var("arr"),
                                      Operation(Number(a), "Subtraction", Number(1))))
                 [] kind = "StoreThrough" ->
                        AssignTarget(Index(Var("arr"),
                                           Operation(Number(a), "Subtraction", Number(1))),
                                     Number(7))
                 [] kind = "StoreThroughReactive" ->
                        ReactiveAssignTarget(Index(Var("arr"),
                                                   Operation(Number(a), "Subtraction", Number(1))),
                                             Number(7))
                 [] kind = "StoreThroughImmutable" ->
                        ImmutableAssignTarget(Index(Var("arr"),
                                                    Operation(Number(a), "Subtraction", Number(1))),
                                              Number(7)),
               Println(Number(1))>>)>>)

\* The operator of a variant: "LazyModulo" is "Modulo" in a reactive
\* expression.
KindOperator(kind) ==
    CASE kind \in {"Addition", "LazyAddition"} -> "Addition"
      [] kind \in {"Subtraction", "LazySubtraction", "Negate", "LazyNegate"} -> "Subtraction"
      [] kind \in {"Division", "LazyDivision"} -> "Division"
      [] kind \in {"Modulo", "LazyModulo"} -> "Modulo"
      [] kind \in {"And", "LazyAnd"} -> "And"
      [] kind \in {"Or", "LazyOr"} -> "Or"

LazyKinds == {"LazyAddition", "LazySubtraction", "LazyNegate", "LazyDivision", "LazyModulo",
              "LazyAnd", "LazyOr"}

\* func main() { x = <e>; println 1 }, or with e in a reactive expression
\* func main() { x ::= <e>; y = x; println 1 }
Computing(kind, e, shown) ==
    Program(<<Main(
        IF kind \in LazyKinds
        THEN <<ReactiveAssign("x", e), Assign("y", Var("x")), Println(shown)>>
        ELSE <<Assign("x", e), Println(shown)>>)>>)

\* The left operand of DivZero: 5, 'a', 0.
Dividend(a) ==
    CASE a = 0 -> Number(5)
      [] a = 1 -> Char(97)
      [] OTHER -> Number(0)

\* The right operand of DivZero: 0, the Char of code 0 ('a' - 97), 2.
Divisor(b) ==
    CASE b = 0 -> Number(0)
      [] b = 1 -> Operation(Char(97), "Subtraction", Number(97))
      [] OTHER -> Number(2)

\* x = <Dividend(a)> / <Divisor(b)>, or with %
DivZero(kind, a, b) ==
    Computing(kind, Operation(Dividend(a), KindOperator(kind), Divisor(b)), Number(1))

\* x = (<a> - 1) && (<b> - 1); println x, or with ||
Logic(kind, a, b) ==
    Computing(kind, Operation(Operation(Number(a), "Subtraction", Number(1)),
                              KindOperator(kind),
                              Operation(Number(b), "Subtraction", Number(1))),
              Var(IF kind \in LazyKinds THEN "y" ELSE "x"))

\* An operand of CharArith: 'a', i32::MAX, 'b', 2.
Operand(a) ==
    CASE a = 0 -> Char(97)
      [] a = 1 -> Number(I32Max)
      [] a = 2 -> Char(98)
      [] OTHER -> Number(2)

\* x = <Operand(a)> + <Operand(b)>, or with - or %; Negate: x = -<Operand(a)>,
\* which the parser reads as 0 - <Operand(a)>.
CharArith(kind, a, b) ==
    Computing(kind,
              IF kind \in {"Negate", "LazyNegate"}
              THEN Operation(Number(0), "Subtraction", Operand(a))
              ELSE Operation(Operand(a), KindOperator(kind), Operand(b)),
              Number(1))

\* struct P { y = 0 }
\* func main() { p = struct P; <first write of a to p.y>; <second write of b to p.y>; println p.y }
\* Plain: p.y = a; p.y = b.  Reactive: p.y ::= a; p.y = b.
\* ReactiveTwice: p.y ::= a; p.y ::= b.
Rewrite(kind, a, b) ==
    Program(<<
        StructDef("P", <<FieldDecl("y", "Mutable", Number(0))>>),
        Main(<<Assign("p", StructNew("P")),
               WriteField(IF kind = "Plain" THEN "StoreThrough" ELSE "StoreThroughReactive",
                          Var("p"), "y", Number(a)),
               WriteField(IF kind = "ReactiveTwice" THEN "StoreThroughReactive"
                          ELSE "StoreThrough",
                          Var("p"), "y", Number(b)),
               Println(FieldAccess(Var("p"), "y"))>>)>>)

\* struct P { x = 0; y = 0 }
\* func main() { <binding of x>; p = struct P; p.y ::= x + 1; p.x = b + 1; println p.y }
\* Integer: x := a + 10.  Char: x := the char of code 97 + a.  Local: x = a + 10.
\* Global: x = a + 10 before main.
Shadow(kind, a, b) ==
    Program(
        (IF kind = "Global" THEN <<Assign("x", Number(a + 10))>> ELSE <<>>)
        \o <<StructDef("P", <<FieldDecl("x", "Mutable", Number(0)),
                              FieldDecl("y", "Mutable", Number(0))>>),
             Main((CASE kind = "Integer" -> <<ImmutableAssign("x", Number(a + 10))>>
                     [] kind = "Char" -> <<ImmutableAssign("x", Char(97 + a))>>
                     [] kind = "Local" -> <<Assign("x", Number(a + 10))>>
                     [] kind = "Global" -> <<>>)
                  \o <<Assign("p", StructNew("P")),
                       ReactiveAssignTarget(FieldAccess(Var("p"), "y"),
                                            Operation(Var("x"), "Addition", Number(1))),
                       AssignTarget(FieldAccess(Var("p"), "x"), Number(b + 1)),
                       Println(FieldAccess(Var("p"), "y"))>>)>>)

\* func main() { i = 0;
\*               loop { j = 0; loop { if j >= b { break }; j = j + 1 };
\*                      println j; if i >= a { break }; i = i + 1 };
\*               println 9 }
Breaks(a, b) ==
    Program(<<Main(<<
        Assign("i", Number(0)),
        Loop(<<Assign("j", Number(0)),
               Loop(<<IfElse(Operation(Var("j"), "GreaterEqual", Number(b)), <<Break>>, <<>>),
                      Assign("j", Operation(Var("j"), "Addition", Number(1)))>>),
               Println(Var("j")),
               IfElse(Operation(Var("i"), "GreaterEqual", Number(a)), <<Break>>, <<>>),
               Assign("i", Operation(Var("i"), "Addition", Number(1)))>>),
        Println(Number(9))>>)>>)

\* The string literal of Strings: the first a of the chars a, b, c.
Lit(a) == StringLiteral(SubSeq(<<97, 98, 99>>, 1, a))

\* Once:  func main() { s = "<lit>"; println s; println 1 }
\* Twice: func main() { i = 0; loop { if i >= 2 { break }; s = "<lit>"; println s; i = i + 1 } }
\* Top:   s = "<lit>"  func main() { println s; println 1 }
\* Named: func main() { __strlit_0 := 7; s = "<lit>"; println s; println 1 }
Strings(kind, a) ==
    CASE kind = "Once" ->
            Program(<<Main(<<Assign("s", Lit(a)), Println(Var("s")), Println(Number(1))>>)>>)
      [] kind = "Twice" ->
            Program(<<Main(<<
                Assign("i", Number(0)),
                Loop(<<IfElse(Operation(Var("i"), "GreaterEqual", Number(2)), <<Break>>, <<>>),
                       Assign("s", Lit(a)),
                       Println(Var("s")),
                       Assign("i", Operation(Var("i"), "Addition", Number(1)))>>)>>)>>)
      [] kind = "Top" ->
            Program(<<Assign("s", Lit(a)),
                      Main(<<Println(Var("s")), Println(Number(1))>>)>>)
      [] kind = "Named" ->
            Program(<<Main(<<ImmutableAssign(StrlitName(0), Number(7)),
                             Assign("s", Lit(a)), Println(Var("s")), Println(Number(1))>>)>>)

\* func main() { <v>; print v; println v }
\* Int:    v = a - 1
\* Char:   v = 'a' + b
\* Chars:  v = [a]; each v[i] = the char of code 97 + i + b
\* Mixed:  v = [2]; v[0] = 'a'; v[1] = b
\* Lazy:   v = [2]; v[0] = 'a'; v[1] ::= 'b'
\* Surrogate: v = 'a' + 55199
\* SurrogateIn: v = [2]; v[0] = 'a'; v[1] = 'a' + 55199
Printing(kind, a, b) ==
    Program(<<Main(
        (CASE kind = "Int" ->
                <<Assign("v", Operation(Number(a), "Subtraction", Number(1)))>>
           [] kind = "Char" ->
                <<Assign("v", Operation(Char(97), "Addition", Number(b)))>>
           [] kind = "Chars" ->
                <<Assign("v", ArrayNew(Number(a)))>>
                \o [i \in 1..a |-> AssignTarget(Index(Var("v"), Number(i - 1)),
                                                Char(96 + i + b))]
           [] kind = "Mixed" ->
                <<Assign("v", ArrayNew(Number(2))),
                  AssignTarget(Index(Var("v"), Number(0)), Char(97)),
                  AssignTarget(Index(Var("v"), Number(1)), Number(b))>>
           [] kind = "Lazy" ->
                <<Assign("v", ArrayNew(Number(2))),
                  AssignTarget(Index(Var("v"), Number(0)), Char(97)),
                  ReactiveAssignTarget(Index(Var("v"), Number(1)), Char(98))>>
           [] kind = "Surrogate" ->
                <<Assign("v", Operation(Char(97), "Addition", Number(55199)))>>
           [] kind = "SurrogateIn" ->
                <<Assign("v", ArrayNew(Number(2))),
                  AssignTarget(Index(Var("v"), Number(0)), Char(97)),
                  AssignTarget(Index(Var("v"), Number(1)),
                               Operation(Char(97), "Addition", Number(55199)))>>)
        \o <<PrintE(Var("v")), Println(Var("v"))>>)>>)

\* struct P { x = 0 }
\* func main() { p = struct P; <write of a to p.z by the instruction of kind>; println 1 }
MissingField(kind, a) ==
    Program(<<
        StructDef("P", <<FieldDecl("x", "Mutable", Number(0))>>),
        Main(<<Assign("p", StructNew("P")),
               WriteField(kind, Var("p"), "z", Number(a)),
               Println(Number(1))>>)>>)

\* Plain:     func main() { x = a; x = b; println x }
\* Global:    x = a  func main() { x = b; println x }
\* Immutable: func main() { x := a; x = b; println x }
\* Enclosing: x := a  func main() { x = b; println x }
\* Param:     func f(x) { x = b; return x }  func main() { println f(a) }
ReadWrite(kind, a, b) ==
    LET write == <<Assign("x", Number(b)), Println(Var("x"))>>
    IN CASE kind = "Plain" -> Program(<<Main(<<Assign("x", Number(a))>> \o write)>>)
         [] kind = "Global" -> Program(<<Assign("x", Number(a)), Main(write)>>)
         [] kind = "Immutable" ->
                Program(<<Main(<<ImmutableAssign("x", Number(a))>> \o write)>>)
         [] kind = "Enclosing" -> Program(<<ImmutableAssign("x", Number(a)), Main(write)>>)
         [] kind = "Param" ->
                Program(<<FuncDef("f", <<"x">>, <<Assign("x", Number(b)),
                                                  Return(Some(Var("x")))>>),
                          Main(<<Println(CallE("f", <<Number(a)>>))>>)>>)

\* struct Q { x = 0; u ::= x + 1; v ::= u + 1 }
\* struct R { u ::= v + 1; v ::= u + 1 }
\* Acyclic: func main() { x = a; y ::= x + 1; z ::= y + 1; w ::= z + 1;
\*                        println w; x = b; println w }
\* Fields:  func main() { q = struct Q; q.x = a; println q.v; q.x = b; println q.v }
\* Self:    func main() { x = a; y ::= y + x; println y; println 1 }
\* Mutual:  func main() { y ::= z + a; z ::= y + 1; println z; println 1 }
\* Sibling: func main() { r = struct R; println r.u; println 1 }
\* Element: func main() { arr = [1]; arr[0] ::= arr[0] + a; println arr[0]; println 1 }
Cycles(kind, a, b) ==
    LET plus(e, n) == Operation(e, "Addition", Number(n))
        defs == <<StructDef("Q", <<FieldDecl("x", "Mutable", Number(0)),
                                   FieldDecl("u", "Reactive", plus(Var("x"), 1)),
                                   FieldDecl("v", "Reactive", plus(Var("u"), 1))>>),
                  StructDef("R", <<FieldDecl("u", "Reactive", plus(Var("v"), 1)),
                                   FieldDecl("v", "Reactive", plus(Var("u"), 1))>>)>>
        body ==
            CASE kind = "Acyclic" ->
                    <<Assign("x", Number(a)),
                      ReactiveAssign("y", plus(Var("x"), 1)),
                      ReactiveAssign("z", plus(Var("y"), 1)),
                      ReactiveAssign("w", plus(Var("z"), 1)),
                      Println(Var("w")),
                      Assign("x", Number(b)),
                      Println(Var("w"))>>
              [] kind = "Fields" ->
                    <<Assign("q", StructNew("Q")),
                      AssignTarget(FieldAccess(Var("q"), "x"), Number(a)),
                      Println(FieldAccess(Var("q"), "v")),
                      AssignTarget(FieldAccess(Var("q"), "x"), Number(b)),
                      Println(FieldAccess(Var("q"), "v"))>>
              [] kind = "Self" ->
                    <<Assign("x", Number(a)),
                      ReactiveAssign("y", Operation(Var("y"), "Addition", Var("x"))),
                      Println(Var("y")),
                      Println(Number(1))>>
              [] kind = "Mutual" ->
                    <<ReactiveAssign("y", plus(Var("z"), a)),
                      ReactiveAssign("z", plus(Var("y"), 1)),
                      Println(Var("z")),
                      Println(Number(1))>>
              [] kind = "Sibling" ->
                    <<Assign("r", StructNew("R")),
                      Println(FieldAccess(Var("r"), "u")),
                      Println(Number(1))>>
              [] kind = "Element" ->
                    <<Assign("arr", ArrayNew(Number(1))),
                      ReactiveAssignTarget(Index(Var("arr"), Number(0)),
                                           plus(Index(Var("arr"), Number(0)), a)),
                      Println(Index(Var("arr"), Number(0))),
                      Println(Number(1))>>
    IN Program(defs \o <<Main(body)>>)

\* struct U { k = 0 }
\* struct T { n = 0; f = g; m = [1]; w = u }
\* func main() { g = [1]; g[0] = a; u = struct U; p = struct T; q = struct T;
\*               <write of b + 1 through p>;
\*               println q.n; println q.f[0]; println q.m[0]; println q.w.k;
\*               println g[0]; println u.k }
\* where the write is p.n = .., p.f[0] = .., p.m[0] = .. or p.w.k = ..
Twins(kind, a, b) ==
    LET p == Var("p")
        q == Var("q")
        target == CASE kind = "Field" -> FieldAccess(p, "n")
                    [] kind = "Array" -> Index(FieldAccess(p, "f"), Number(0))
                    [] kind = "New" -> Index(FieldAccess(p, "m"), Number(0))
                    [] kind = "Record" -> FieldAccess(FieldAccess(p, "w"), "k")
    IN Program(<<
        StructDef("U", <<FieldDecl("k", "Mutable", Number(0))>>),
        StructDef("T", <<FieldDecl("n", "Mutable", Number(0)),
                         FieldDecl("f", "Mutable", Var("g")),
                         FieldDecl("m", "Mutable", ArrayNew(Number(1))),
                         FieldDecl("w", "Mutable", Var("u"))>>),
        Main(<<Assign("g", ArrayNew(Number(1))),
               AssignTarget(Index(Var("g"), Number(0)), Number(a)),
               Assign("u", StructNew("U")),
               Assign("p", StructNew("T")),
               Assign("q", StructNew("T")),
               AssignTarget(target, Number(b + 1)),
               Println(FieldAccess(q, "n")),
               Println(Index(FieldAccess(q, "f"), Number(0))),
               Println(Index(FieldAccess(q, "m"), Number(0))),
               Println(FieldAccess(FieldAccess(q, "w"), "k")),
               Println(Index(Var("g"), Number(0))),
               Println(FieldAccess(Var("u"), "k"))>>)>>)

\* struct S { x = 0 }
\* func f(c) { t = a; <c[0] or c.x> ::= t + 1; return 0 }
\* func main() { <binding of t>; c = <[1] or struct S>; r = f(c); println <c[0] or c.x>; println 9 }
\* The kind names the target (Elem, Field) and main's binding of t: none
\* (Missing), t = b + 2 at top level (Global), t = b + 2 in main over t = 7 at
\* top level (Local), or t := 'a' + b in main over both (Immutable).
Escape(kind, a, b) ==
    LET field == kind \in {"FieldMissing", "FieldLocal", "FieldImmutable", "FieldGlobal"}
        bind == CASE kind \in {"ElemLocal", "FieldLocal"} -> <<Assign("t", Number(b + 2))>>
                  [] kind \in {"ElemImmutable", "FieldImmutable"} ->
                        <<Assign("t", Number(b + 2)), ImmutableAssign("t", Char(97 + b))>>
                  [] OTHER -> <<>>
        top == CASE kind \in {"ElemGlobal", "FieldGlobal"} -> <<Assign("t", Number(b + 2))>>
                 [] kind \in {"ElemMissing", "FieldMissing"} -> <<>>
                 [] OTHER -> <<Assign("t", Number(7))>>
        path(c) == IF field THEN FieldAccess(Var(c), "x") ELSE Index(Var(c), Number(0))
    IN Program(top \o <<
        StructDef("S", <<FieldDecl("x", "Mutable", Number(0))>>),
        FuncDef("f", <<"c">>, <<
            Assign("t", Number(a)),
            ReactiveAssignTarget(path("c"), Operation(Var("t"), "Addition", Number(1))),
            Return(Some(Number(0)))>>),
        Main(bind \o <<
            Assign("c", IF field THEN StructNew("S") ELSE ArrayNew(Number(1))),
            Assign("r", CallE("f", <<Var("c")>>)),
            Println(path("c")),
            Println(Number(9))>>)>>)

\* An instruction stream for VM::new that closes one scope more than it opens.
PopCode(a) ==
    <<Ins0("PushImmutableContext"), InsN("Push", a), InsName("StoreImmutable", "x"),
      Ins0("PopImmutableContext"), Ins0("PopImmutableContext"),
      InsN("Push", a), Ins0("Println")>>

\* func main() { x = a; y ::= x * 3; println y; x = b; println y }
Reactive(a, b) ==
    Program(<<Main(<<
        Assign("x", Number(a)),
        ReactiveAssign("y", Operation(Var("x"), "Multiplication", Number(3))),
        Println(Var("y")),
        Assign("x", Number(b)),
        Println(Var("y"))>>)>>)

\* The reactive expression of the capture programs, over the immutable k.
CaptureExpr(kind) ==
    CASE kind = "Number" -> Operation(Var("k"), "Addition", Number(1))
      [] kind = "Char" -> Operation(Var("k"), "Addition", Number(1))
      [] kind = "Call" -> CallE("id", <<Var("k")>>)
      [] kind = "ArrayNew" -> ArrayNew(Var("k"))

\* func id(v) { return v }
\* func main() { if 1 { k := a; y ::= <expr over k> }; k := b; println y }
\* (for kind "Char" the two bindings of k are chars)
Capture(kind, a, b) ==
    LET lit(n) == IF kind = "Char" THEN Char(97 + n) ELSE Number(n)
    IN Program(<<
        FuncDef("id", <<"v">>, <<Return(Some(Var("v")))>>),
        Main(<<IfElse(Number(1),
                      <<ImmutableAssign("k", lit(a)), ReactiveAssign("y", CaptureExpr(kind))>>,
                      <<>>),
               ImmutableAssign("k", lit(b)),
               Println(Var("y"))>>)>>)

\* struct R { a = a0; b ::= a + 1 }
\* func main() { r = struct R; println r.b; r.a = b0; println r.b }
StructReactive(a, b) ==
    Program(<<
        StructDef("R", <<FieldDecl("a", "Mutable", Number(a)),
                         FieldDecl("b", "Reactive",
                                   Operation(Var("a"), "Addition", Number(1)))>>),
        Main(<<Assign("r", StructNew("R")),
               Println(FieldAccess(Var("r"), "b")),
               AssignTarget(FieldAccess(Var("r"), "a"), Number(b)),
               Println(FieldAccess(Var("r"), "b"))>>)>>)

\* g0 := 7
\* func leaf() {}
\* func f(p, q) { p; if p > 0 { loop { t := q; return t - p } }; return 9 }
\* func main() { loc = a; k := 5; x = 1 + f(loc, b); println x; leaf(); println g0 }
Calls(a, b) ==
    Program(<<
        ImmutableAssign("g0", Number(7)),
        FuncDef("leaf", <<>>, <<>>),
        FuncDef("f", <<"p", "q">>, <<
            Var("p"),
            IfElse(Operation(Var("p"), "Greater", Number(0)),
                   <<Loop(<<ImmutableAssign("t", Var("q")),
                            Return(Some(Operation(Var("t"), "Subtraction", Var("p"))))>>)>>,
                   <<>>),
            Return(Some(Number(9)))>>),
        Main(<<Assign("loc", Number(a)),
               ImmutableAssign("k", Number(5)),
               Assign("x", Operation(Number(1), "Addition",
                                     CallE("f", <<Var("loc"), Number(b)>>))),
               Println(Var("x")),
               CallE("leaf", <<>>),
               Println(Var("g0"))>>)>>)

\* struct B { f = g }
\* func main() { h = [1]; h[0] = a; g = [3]; g[0] = h; g[1] := a;
\*               s = struct B; s.f[2] = b + 1; s.f[0][0] = b + 1; println g[0][0] }
Clone(a, b) ==
    Program(<<
        StructDef("B", <<FieldDecl("f", "Mutable", Var("g"))>>),
        Main(<<Assign("h", ArrayNew(Number(1))),
               AssignTarget(Index(Var("h"), Number(0)), Number(a)),
               Assign("g", ArrayNew(Number(3))),
               AssignTarget(Index(Var("g"), Number(0)), Var("h")),
               ImmutableAssignTarget(Index(Var("g"), Number(1)), Number(a)),
               Assign("s", StructNew("B")),
               AssignTarget(Index(FieldAccess(Var("s"), "f"), Number(2)), Number(b + 1)),
               AssignTarget(Index(Index(FieldAccess(Var("s"), "f"), Number(0)), Number(0)),
                            Number(b + 1)),
               Println(Index(Index(Var("g"), Number(0)), Number(0)))>>)>>)

\* func main() { x = [1]; x[0] = a; y = x; y[0] = b + 1; println x[0] }
Alias(a, b) ==
    Program(<<Main(<<
        Assign("x", ArrayNew(Number(1))),
        AssignTarget(Index(Var("x"), Number(0)), Number(a)),
        Assign("y", Var("x")),
        AssignTarget(Index(Var("y"), Number(0)), Number(b + 1)),
        Println(Index(Var("x"), Number(0)))>>)>>)

\* func main() { x = a; y ::= x + 1; z ::= y; println z; x = b; println z }
Chain(a, b) ==
    Program(<<Main(<<
        Assign("x", Number(a)),
        ReactiveAssign("y", Operation(Var("x"), "Addition", Number(1))),
        ReactiveAssign("z", Var("y")),
        Println(Var("z")),
        Assign("x", Number(b)),
        Println(Var("z"))>>)>>)

\* The reactive expression of the ForceEffects programs.
EffectExpr(kind, a) ==
    CASE kind = "Call" -> CallE("bump", <<>>)
      [] kind = "ArrayNew" -> ArrayNew(Number(a))
      [] kind = "StringLiteral" -> StringLiteral(<<97, 98 + a>>)

\* arr = [1]
\* func bump() { arr[0] = arr[0] + 1; return arr[0] }
\* func main() { y ::= <expr>; println y; println y }
ForceEffects(kind, a) ==
    Program(<<
        Assign("arr", ArrayNew(Number(1))),
        FuncDef("bump", <<>>, <<
            AssignTarget(Index(Var("arr"), Number(0)),
                         Operation(Index(Var("arr"), Number(0)), "Addition", Number(1))),
            Return(Some(Index(Var("arr"), Number(0))))>>),
        Main(<<ReactiveAssign("y", EffectExpr(kind, a)),
               Println(Var("y")),
               Println(Var("y"))>>)>>)

\* project/m.rx:      gm = a; func mf() { return b }; struct MS { q = 1 };
\*                    println 5; import m
\* project/lib/p.rx:  println 6; import lib.q; gp = 1
\* project/lib/q.rx:  println 7; import lib.p; gq = 2
ModuleFiles(a, b) ==
    LET m == Program(<<Assign("gm", Number(a)),
                       FuncDef("mf", <<>>, <<Return(Some(Number(b)))>>),
                       StructDef("MS", <<FieldDecl("q", "Mutable", Number(1))>>),
                       Println(Number(5)),
                       Import(<<"m">>)>>)
        lp == Program(<<Println(Number(6)), Import(<<"lib", "q">>),
                        Assign("gp", Number(1))>>)
        lq == Program(<<Println(Number(7)), Import(<<"lib", "p">>),
                        Assign("gq", Number(2))>>)
    IN [f \in {FilePath(<<"m">>), FilePath(<<"lib", "p">>), FilePath(<<"lib", "q">>)} |->
            IF f = FilePath(<<"m">>) THEN m
            ELSE IF f = FilePath(<<"lib", "p">>) THEN lp ELSE lq]

\* Top:        import m; func main() { println gm; println mf(); import m }
\* InFunction: func main() { import m; println mf(); println gm }
\* Cycle:      import lib.p; func main() { println gq; println gp }
\* Missing:    import nothing; func main() {}
Imports(kind) ==
    CASE kind = "Top" ->
            Program(<<Import(<<"m">>),
                      Main(<<Println(Var("gm")), Println(CallE("mf", <<>>)),
                             Import(<<"m">>)>>)>>)
      [] kind = "InFunction" ->
            Program(<<Main(<<Import(<<"m">>), Println(CallE("mf", <<>>)),
                             Println(Var("gm"))>>)>>)
      [] kind = "Cycle" ->
            Program(<<Import(<<"lib", "p">>),
                      Main(<<Println(Var("gq")), Println(Var("gp"))>>)>>)
      [] kind = "Missing" -> Program(<<Import(<<"nothing">>), Main(<<>>)>>)

\* Same:  func main() { x := a; x := b; println x }
\* Inner: func main() { x := a; if 1 { x := b + 3; println x }; println x }
Rebind(kind, a, b) ==
    CASE kind = "Same" ->
            Program(<<Main(<<ImmutableAssign("x", Number(a)), ImmutableAssign("x", Number(b)),
                             Println(Var("x"))>>)>>)
      [] kind = "Inner" ->
            Program(<<Main(<<ImmutableAssign("x", Number(a)),
                             IfElse(Number(1),
                                    <<ImmutableAssign("x", Number(b + 3)), Println(Var("x"))>>,
                                    <<>>),
                             Println(Var("x"))>>)>>)

\* v = a; w = a + 1
\* func main() { println v; v = b + 3; println v; if 1 { v := 7; println v };
\*               println v; println w; println u }
Lookup(a, b) ==
    Program(<<
        Assign("v", Number(a)),
        Assign("w", Number(a + 1)),
        Main(<<Println(Var("v")),
               Assign("v", Number(b + 3)),
               Println(Var("v")),
               IfElse(Number(1), <<ImmutableAssign("v", Number(7)), Println(Var("v"))>>, <<>>),
               Println(Var("v")),
               Println(Var("w")),
               Println(Var("u"))>>)>>)

\* TopReactive: func main() {}  x := a; x ::= b
\* TopOuter:    func main() {}  x := a; if 1 { x = b }
\* Fn:          g = a  func main() { x := a; x ::= b; g = b + 3; g ::= x; println x; println g }
StoreOver(kind, a, b) ==
    CASE kind = "TopReactive" ->
            Program(<<Main(<<>>), ImmutableAssign("x", Number(a)),
                      ReactiveAssign("x", Number(b))>>)
      [] kind = "TopOuter" ->
            Program(<<Main(<<>>), ImmutableAssign("x", Number(a)),
                      IfElse(Number(1), <<Assign("x", Number(b))>>, <<>>)>>)
      [] kind = "Fn" ->
            Program(<<Assign("g", Number(a)),
                      Main(<<ImmutableAssign("x", Number(a)),
                             ReactiveAssign("x", Number(b)),
                             Assign("g", Number(b + 3)),
                             ReactiveAssign("g", Var("x")),
                             Println(Var("x")),
                             Println(Var("g"))>>)>>)

\* Plain:  func main() { i = 0; loop { if i >= a + 1 { break }; n := i; println n; i = i + 1 } }
\* Nested: the same with  loop { m := 1; if 1 { break } }  before n := i
OneShot(kind, a) ==
    Program(<<Main(<<
        Assign("i", Number(0)),
        Loop(<<IfElse(Operation(Var("i"), "GreaterEqual", Number(a + 1)), <<Break>>, <<>>)>>
             \o (IF kind = "Nested"
                 THEN <<Loop(<<ImmutableAssign("m", Number(1)),
                               IfElse(Number(1), <<Break>>, <<>>)>>)>>
                 ELSE <<>>)
             \o <<ImmutableAssign("n", Var("i")),
                  Println(Var("n")),
                  Assign("i", Operation(Var("i"), "Addition", Number(1)))>>)>>)>>)

\* The files an input runs with.
FilesOf(p) == IF p.id = "Imports" THEN ModuleFiles(p.a, p.b) ELSE EmptyMap

ProgramIds == {"LoopBreak", "ImmTop", "ImmFn", "FieldWrite", "UninitImm", "ElemWrite",
               "StoreIndexCode", "Reactive", "Capture", "StructReactive", "Calls",
               "Clone", "Alias", "Chain", "ForceEffects", "Imports",
               "Rebind", "Lookup", "StoreOver", "OneShot", "PopCode", "InitCall",
               "UninitRead", "WriteOnce", "Bounds",
               "DivZero", "Logic", "CharArith", "Rewrite",
               "Shadow",
               "Breaks",
               "Strings",
               "Printing",
               "MissingField",
               "ReadWrite",
               "Cycles",
               "Twins",
               "Escape"}

\* The variants of an input.
Kinds(id) ==
    CASE id = "FieldWrite" -> {"StoreThrough", "StoreThroughReactive", "StoreThroughImmutable",
                               "FieldSet", "FieldSetReactive"}
      [] id = "ElemWrite" -> {"StoreThrough", "StoreThroughReactive", "StoreThroughImmutable"}
      [] id = "StoreIndexCode" -> {"StoreIndex", "StoreIndexReactive"}
      [] id = "Capture" -> {"Number", "Char", "Call", "ArrayNew"}
      [] id = "ForceEffects" -> {"Call", "ArrayNew", "StringLiteral"}
      [] id = "Imports" -> {"Top", "InFunction", "Cycle", "Missing"}
      [] id = "Rebind" -> {"Same", "Inner"}
      [] id = "StoreOver" -> {"TopReactive", "TopOuter", "Fn"}
      [] id = "OneShot" -> {"Plain", "Nested"}
      [] id = "UninitRead" -> {"FieldGet", "Reactive", "Access", "Set"}
      [] id = "WriteOnce" -> {"Field", "Elem", "Sentinel"}
      [] id = "Bounds" -> {"New", "ArrayGet", "StoreThrough", "StoreThroughReactive",
                           "StoreThroughImmutable"}
      [] id = "Rewrite" -> {"Plain", "Reactive", "ReactiveTwice"}
      [] id = "Shadow" -> {"Integer", "Char", "Local", "Global"}
      [] id = "DivZero" -> {"Division", "Modulo", "LazyDivision", "LazyModulo"}
      [] id = "Logic" -> {"And", "Or", "LazyAnd", "LazyOr"}
      [] id = "CharArith" -> {"Addition", "Subtraction", "Modulo", "Negate", "LazyAddition",
                              "LazySubtraction", "LazyModulo", "LazyNegate"}
      [] id = "Strings" -> {"Once", "Twice", "Top", "Named"}
      [] id = "Printing" -> {"Int", "Char", "Chars", "Mixed", "Lazy", "Surrogate", "SurrogateIn"}
      [] id = "MissingField" -> {"FieldSet", "FieldSetReactive", "StoreThrough", "StoreThroughReactive", "StoreThroughImmutable"}
      [] id = "ReadWrite" -> {"Plain", "Global", "Immutable", "Enclosing", "Param"}
      [] id = "Cycles" -> {"Acyclic", "Fields", "Self", "Mutual", "Sibling", "Element"}
      [] id = "Twins" -> {"Field", "Array", "New", "Record"}
      [] id = "Escape" -> {"ElemMissing", "ElemLocal", "ElemImmutable", "ElemGlobal", "FieldMissing", "FieldLocal", "FieldImmutable", "FieldGlobal"}
      [] OTHER -> {"-"}

\* The inputs that read b.
UsesB(id) == id \in {"ImmTop", "ImmFn", "FieldWrite", "ElemWrite", "Reactive", "Capture",
                     "StructReactive", "Calls", "Clone", "Alias", "Chain", "Imports",
                     "Rebind", "Lookup", "StoreOver", "WriteOnce",
                     "Bounds", "DivZero", "Logic", "CharArith", "Rewrite",
               "Shadow",
                     "Breaks",
                     "Printing",
                     "ReadWrite",
                     "Cycles",
                     "Twins",
                     "Escape"}

Inputs ==
    {[id |-> id, kind |-> kind, a |-> a, b |-> b, checks |-> checks] :
        id \in ProgramIds, kind \in UNION {Kinds(i) : i \in ProgramIds}, a \in Vals, b \in Vals,
        checks \in BOOLEAN}

\* The inputs whose arithmetic overflows, run under both kinds of build.
UsesChecks(id) == id \in {"CharArith"}

ValidInput(p) ==
    /\ p.kind \in Kinds(p.id)
    /\ UsesB(p.id) \/ p.b = 0
    /\ UsesChecks(p.id) \/ p.checks = FALSE

\* The syntax tree of an input (every input but StoreIndexCode).
SourceOf(p) ==
    CASE p.id = "LoopBreak" -> LoopBreak(p.a)
      [] p.id = "ImmTop" -> ImmTop(p.a, p.b)
      [] p.id = "ImmFn" -> ImmFn(p.a, p.b)
      [] p.id = "FieldWrite" -> FieldWrite(p.kind, p.a, p.b)
      [] p.id = "UninitImm" -> UninitImm(p.a)
      [] p.id = "ElemWrite" -> ElemWrite(p.kind, p.a, p.b)
      [] p.id = "Reactive" -> Reactive(p.a, p.b)
      [] p.id = "Capture" -> Capture(p.kind, p.a, p.b)
      [] p.id = "StructReactive" -> StructReactive(p.a, p.b)
      [] p.id = "Calls" -> Calls(p.a, p.b)
      [] p.id = "Clone" -> Clone(p.a, p.b)
      [] p.id = "Alias" -> Alias(p.a, p.b)
      [] p.id = "Chain" -> Chain(p.a, p.b)
      [] p.id = "ForceEffects" -> ForceEffects(p.kind, p.a)
      [] p.id = "Imports" -> Imports(p.kind)
      [] p.id = "Rebind" -> Rebind(p.kind, p.a, p.b)
      [] p.id = "Lookup" -> Lookup(p.a, p.b)
      [] p.id = "StoreOver" -> StoreOver(p.kind, p.a, p.b)
      [] p.id = "OneShot" -> OneShot(p.kind, p.a)
      [] p.id = "InitCall" -> InitCall(p.a)
      [] p.id = "UninitRead" -> UninitRead(p.kind, p.a)
      [] p.id = "WriteOnce" -> WriteOnce(p.kind, p.a, p.b)
      [] p.id = "Bounds" -> Bounds(p.kind, p.a, p.b)
      [] p.id = "DivZero" -> DivZero(p.kind, p.a, p.b)
      [] p.id = "Rewrite" -> Rewrite(p.kind, p.a, p.b)
      [] p.id = "Shadow" -> Shadow(p.kind, p.a, p.b)
      [] p.id = "Logic" -> Logic(p.kind, p.a, p.b)
      [] p.id = "CharArith" -> CharArith(p.kind, p.a, p.b)
      [] p.id = "Breaks" -> Breaks(p.a, p.b)
      [] p.id = "Strings" -> Strings(p.kind, p.a)
      [] p.id = "Printing" -> Printing(p.kind, p.a, p.b)
      [] p.id = "MissingField" -> MissingField(p.kind, p.a)
      [] p.id = "ReadWrite" -> ReadWrite(p.kind, p.a, p.b)
      [] p.id = "Cycles" -> Cycles(p.kind, p.a, p.b)
      [] p.id = "Twins" -> Twins(p.kind, p.a, p.b)
      [] p.id = "Escape" -> Escape(p.kind, p.a, p.b)

\* main.rs: compile the program with a new LabelGenerator and break stack.
CodeOf(p) ==
    IF p.id = "StoreIndexCode" THEN StoreIndexCode(p.kind, p.a)
    ELSE IF p.id = "PopCode" THEN PopCode(p.a)
    ELSE Compile(SourceOf(p), NewCompileState).code

Init ==
    \E p \in Inputs :
        /\ ValidInput(p)
        /\ prog = p
        /\ prev = None
        /\ LET s == NewVM(CodeOf(p))
           IN /\ stack = s.stack
              /\ global_env = s.global_env
              /\ local_env = s.local_env
              /\ immutable_stack = s.immutable_stack
              /\ pointer = s.pointer
              /\ code = s.code
              /\ labels = s.labels
              /\ call_stack = s.call_stack
              /\ struct_defs = s.struct_defs
              /\ heap = s.heap
              /\ array_heap = s.array_heap
              /\ array_immutables = s.array_immutables
              /\ imported_modules = s.imported_modules
              /\ import_stack = s.import_stack
              /\ files = FilesOf(p)
              /\ output = s.output
              /\ status = s.status
              /\ err = s.err

\* ------------------------------------------------------------------ actions
DoPush == Fetching /\ CurIns.op \in {"Push", "PushChar"} /\ Commit(Stepped)

DoLoad == Fetching /\ CurIns.op \in {"Load"} /\ Commit(Stepped)

DoStore == Fetching /\ CurIns.op \in {"Store"} /\ Commit(Stepped)

DoStoreImmutable == Fetching /\ CurIns.op \in {"StoreImmutable"} /\ Commit(Stepped)

DoStoreReactive == Fetching /\ CurIns.op \in {"StoreReactive"} /\ Commit(Stepped)

DoAdd == Fetching /\ CurIns.op \in {"Add"} /\ Commit(Stepped)

DoSub == Fetching /\ CurIns.op \in {"Sub"} /\ Commit(Stepped)

DoMul == Fetching /\ CurIns.op \in {"Mul"} /\ Commit(Stepped)

DoDiv == Fetching /\ CurIns.op \in {"Div"} /\ Commit(Stepped)

DoModulo == Fetching /\ CurIns.op \in {"Modulo"} /\ Commit(Stepped)

DoCmp == Fetching /\ CurIns.op \in CmpOps /\ Commit(Stepped)

DoPrintln == Fetching /\ CurIns.op \in {"Println"} /\ Commit(Stepped)

DoPrint == Fetching /\ CurIns.op \in {"Print"} /\ Commit(Stepped)

DoArrayNew == Fetching /\ CurIns.op \in {"ArrayNew"} /\ Commit(Stepped)

DoArrayGet == Fetching /\ CurIns.op \in {"ArrayGet"} /\ Commit(Stepped)

DoStoreIndex == Fetching /\ CurIns.op \in {"StoreIndex"} /\ Commit(Stepped)

DoStoreIndexReactive == Fetching /\ CurIns.op \in {"StoreIndexReactive"} /\ Commit(Stepped)

DoStoreFunction == Fetching /\ CurIns.op \in {"StoreFunction"} /\ Commit(Stepped)

DoCall == Fetching /\ CurIns.op \in {"Call"} /\ Commit(Stepped)

DoReturn == Fetching /\ CurIns.op \in {"Return"} /\ Commit(Stepped)

DoStoreStruct == Fetching /\ CurIns.op \in {"StoreStruct"} /\ Commit(Stepped)

DoNewStruct == Fetching /\ CurIns.op \in {"NewStruct"} /\ Commit(Stepped)

DoFieldGet == Fetching /\ CurIns.op \in {"FieldGet"} /\ Commit(Stepped)

DoFieldSet == Fetching /\ CurIns.op \in {"FieldSet"} /\ Commit(Stepped)

DoFieldSetReactive == Fetching /\ CurIns.op \in {"FieldSetReactive"} /\ Commit(Stepped)

DoPushImmutableContext == Fetching /\ CurIns.op \in {"PushImmutableContext"} /\ Commit(Stepped)

DoPopImmutableContext == Fetching /\ CurIns.op \in {"PopImmutableContext"} /\ Commit(Stepped)

DoClearImmutableContext == Fetching /\ CurIns.op \in {"ClearImmutableContext"} /\ Commit(Stepped)

DoLabel == Fetching /\ CurIns.op \in {"Label"} /\ Commit(Stepped)

DoJump == Fetching /\ CurIns.op \in {"Jump"} /\ Commit(Stepped)

DoJumpIfZero == Fetching /\ CurIns.op \in {"JumpIfZero"} /\ Commit(Stepped)

DoArrayLValue == Fetching /\ CurIns.op \in {"ArrayLValue"} /\ Commit(Stepped)

DoFieldLValue == Fetching /\ CurIns.op \in {"FieldLValue"} /\ Commit(Stepped)

DoStoreThrough == Fetching /\ CurIns.op \in {"StoreThrough"} /\ Commit(Stepped)

DoStoreThroughReactive == Fetching /\ CurIns.op \in {"StoreThroughReactive"} /\ Commit(Stepped)

DoStoreThroughImmutable == Fetching /\ CurIns.op \in {"StoreThroughImmutable"} /\ Commit(Stepped)

DoImport == Fetching /\ CurIns.op \in {"Import"} /\ Commit(Stepped)

\* The loop of run() ends at the end of the code: run() returns.
DoEnd ==
    /\ status = "running"
    /\ pointer >= Len(code)
    /\ Commit(Stepped)

Next ==
    \/ DoPush \/ DoLoad \/ DoStore \/ DoStoreImmutable \/ DoStoreReactive
    \/ DoAdd \/ DoSub \/ DoMul \/ DoDiv \/ DoModulo \/ DoCmp \/ DoPrintln \/ DoPrint
    \/ DoArrayNew \/ DoArrayGet \/ DoStoreIndex \/ DoStoreIndexReactive
    \/ DoStoreFunction \/ DoCall \/ DoReturn
    \/ DoStoreStruct \/ DoNewStruct \/ DoFieldGet \/ DoFieldSet \/ DoFieldSetReactive
    \/ DoPushImmutableContext \/ DoPopImmutableContext \/ DoClearImmutableContext
    \/ DoLabel \/ DoJump \/ DoJumpIfZero
    \/ DoArrayLValue \/ DoFieldLValue
    \/ DoStoreThrough \/ DoStoreThroughReactive \/ DoStoreThroughImmutable
    \/ DoImport \/ DoEnd

Spec == Init /\ [][Next]_vars

\* ------------------------------------------------------------------ properties
\* The properties are state predicates over the VM now and the VM before
\* the last instruction (prev).

\* The instruction the last step executed.
LastIns == At(prev.code, prev.pointer)

\* The last step was the handler of an instruction whose opcode is in ops.
Did(ops) ==
    /\ prev # None
    /\ prev.status = "running"
    /\ prev.pointer < Len(prev.code)
    /\ LastIns.op \in ops

RECURSIVE OpenScopes(_, _)
\* The number of scopes the first p instructions of c open and do not close
\* (PushImmutableContext minus PopImmutableContext in program order).
OpenScopes(c, p) ==
    IF p = 0 THEN 0
    ELSE OpenScopes(c, p - 1)
         + (CASE c[p].op = "PushImmutableContext" -> 1
              [] c[p].op = "PopImmutableContext" -> -1
              [] OTHER -> 0)

\* The depth of the immutable stack on entry to the active code: the root
\* frame at top level, the base copy and the parameter frame in a callee.
EntryDepth == IF call_stack = <<>> THEN 1 ELSE 2

\* C1: wherever control stands outside every if/else and loop of the
\* active code (after a fall-through or after a break), the immutable stack
\* is as deep as on entry to that code, and the name m that LoopBreak binds
\* inside its loop is not resolvable.
C1_ScopesBalanced ==
    (status = "running" /\ pointer <= Len(code) /\ OpenScopes(code, pointer) = 0) =>
        /\ Len(immutable_stack) = EntryDepth
        /\ (prog.id = "LoopBreak" => FindImmutable(VM, "m") = None)

\* C2 (as the code has it): a store-mutable of a name the immutable stack
\* binds fails at top level and leaves the global map alone; inside a call
\* it succeeds, writing the popped value to the local map only.
C2_StoreOverImmutable ==
    (Did({"Store"}) /\ FindImmutable(prev, LastIns.name) # None) =>
        IF prev.local_env = None
        THEN /\ status = "panic"
             /\ global_env = prev.global_env
        ELSE /\ status = "running"
             /\ local_env = Some(Put(prev.local_env.v, LastIns.name, Last(prev.stack)))
             /\ global_env = prev.global_env
             /\ immutable_stack = prev.immutable_stack

\* C2 at top level: the store over the immutable x of ImmTop panicked.
C2_Witness ==
    /\ Did({"Store"})
    /\ FindImmutable(prev, LastIns.name) # None
    /\ prev.local_env = None
    /\ status = "panic"

\* C2 as stated: every store-mutable of a name the immutable stack binds
\* fails, at top level and inside a function call.
C2_AlwaysFails ==
    (Did({"Store"}) /\ FindImmutable(prev, LastIns.name) # None) => status = "panic"

\* The path a store-through instruction writes to: the entry under the value
\* (store-through, store-through-immutable) or the top (store-through-reactive).
WriteTarget ==
    IF LastIns.op = "StoreThroughReactive" THEN Last(prev.stack)
    ELSE prev.stack[Len(prev.stack) - 1]

\* C3: a field in the immutable set of an instance keeps its stored value
\* over every instruction, and a store-through-immutable to it fails.
C3_ImmutableFieldFrozen ==
    (prev # None /\ prev.status = "running") =>
        /\ \A i \in 1..Len(prev.heap) : \A f \in prev.heap[i].immutables :
                heap[i].fields[f] = prev.heap[i].fields[f]
        /\ (/\ Did({"StoreThroughImmutable"})
            /\ WriteTarget.tag = "LValue"
            /\ WriteTarget.kind = "StructField"
            /\ WriteTarget.field \in At(prev.heap, WriteTarget.struct_id).immutables)
           => status = "panic"

\* C4: an array index marked element-immutable keeps its value over every
\* instruction.
C4_ImmutableElementFrozen ==
    (prev # None /\ prev.status = "running") =>
        \A i \in 1..Len(prev.array_immutables) : \A k \in prev.array_immutables[i] :
            k < Len(prev.array_heap[i]) => array_heap[i][k + 1] = prev.array_heap[i][k + 1]

\* C5: in Reactive (y ::= x * 3), every load of y pushes three times the
\* value x has at the load.
C5_ReactiveReadsCurrent ==
    (prog.id = "Reactive" /\ Did({"Load"}) /\ LastIns.name = "y" /\ status = "running") =>
        /\ LookupVar(VM, "x") # None
        /\ Last(stack) = IntV(LookupVar(VM, "x").v.n * 3)
        /\ Len(stack) = Len(prev.stack) + 1

\* C5 after the dependency changed: the second load of y, x now b # a.
C5_Witness ==
    /\ prog.id = "Reactive"
    /\ Did({"Load"})
    /\ LastIns.name = "y"
    /\ prog.a # prog.b
    /\ output # <<>>
    /\ Last(stack) = IntV(prog.b * 3)

\* The value of Capture's reactive expression with k standing for its
\* binding at installation (a): an Int, a Char, or the length of an array.
SnapshotValue ==
    CASE prog.kind = "Number" -> IntV(prog.a + 1)
      [] prog.kind = "Char" -> CharV(97 + prog.a + 1)
      [] prog.kind = "Call" -> IntV(prog.a)
      [] prog.kind = "ArrayNew" -> prog.a

\* C6: in Capture, the load of y (after k was rebound to b in another
\* scope) yields the expression's value under the k of installation, for
\* each form of expression.
C6_SnapshotUsed ==
    (prog.id = "Capture" /\ Did({"Load"}) /\ LastIns.name = "y" /\ status = "running") =>
        IF prog.kind = "ArrayNew"
        THEN /\ Last(stack).tag = "ArrayRef"
             /\ Len(At(array_heap, Last(stack).id)) = SnapshotValue
        ELSE Last(stack) = SnapshotValue

\* C7: in StructReactive (b ::= a + 1), every read of r.b pushes the value
\* the sibling a holds at the read, plus one.
C7_ReactiveFieldReadsSibling ==
    (prog.id = "StructReactive" /\ Did({"FieldGet"}) /\ LastIns.name = "b"
        /\ status = "running") =>
        /\ Last(prev.stack).tag = "StructRef"
        /\ Last(stack) = IntV(At(heap, Last(prev.stack).id).fields["a"].n + 1)

\* C7 after the sibling was written: the second read of r.b, a now b0 # a0.
C7_Witness ==
    /\ prog.id = "StructReactive"
    /\ Did({"FieldGet"})
    /\ LastIns.name = "b"
    /\ prog.a # prog.b
    /\ output # <<>>
    /\ Last(stack) = IntV(prog.b + 1)

\* The last step was the Return of a call (not the end of the program).
Returned ==
    /\ Did({"Return"})
    /\ prev.call_stack # <<>>
    /\ ~ImportInnermost(prev)
    /\ status = "running"

\* C8: when a call returns, the caller's operand stack is the entries below
\* the arguments followed by the return value alone.
C8_StackAfterCall ==
    Returned =>
        /\ Len(stack) = Last(prev.call_stack).stack_base + 1
        /\ \A i \in 1..Last(prev.call_stack).stack_base : stack[i] = prev.stack[i]

\* The context a CallFrame saves, read from a VM record.
ContextOf(s) ==
    [code |-> s.code, labels |-> s.labels, pointer |-> s.pointer,
     local_env |-> s.local_env, immutable_stack |-> s.immutable_stack]

\* C9: a frame pushed by a call holds the caller's code, labels, pointer,
\* local map and immutable stack as they were at the call; no other
\* instruction touches the saved frames; and a return restores exactly the
\* frame's context (the dispatch loop then steps past the call) and pushes
\* the callee's top operand above the saved base, or Int(0).
C9_ReturnRestoresCaller ==
    /\ (Did({"Call"}) /\ status = "running") =>
            /\ Front(call_stack) = prev.call_stack
            /\ [f \in DOMAIN ContextOf(prev) |-> Last(call_stack)[f]] = ContextOf(prev)
    /\ (prev # None /\ prev.status = "running" /\ status = "running"
            /\ ~Did({"Call", "Return"})) =>
            call_stack = prev.call_stack
    /\ Returned =>
            LET frame == Last(prev.call_stack)
            IN /\ ContextOf(VM) = [ContextOf(frame) EXCEPT !.pointer = @ + 1]
               /\ call_stack = Front(prev.call_stack)
               /\ Last(stack) = IF Len(prev.stack) > frame.stack_base
                                THEN Last(prev.stack) ELSE IntV(0)

\* C9 for a return from inside a loop nested in an if: the callee had scopes
\* open above its two entry frames.
C9_Witness ==
    /\ Returned
    /\ Len(prev.call_stack) = 2
    /\ Len(prev.immutable_stack) > 2
    /\ immutable_stack = Last(prev.call_stack).immutable_stack

\* The arguments of the call the last step made: the top argc operands.
CallArgs ==
    [i \in 1..LastIns.argc |-> prev.stack[Len(prev.stack) - LastIns.argc + i]]

\* The parameter frame of that call: each parameter name bound to the
\* argument at its last position.
ParamFrame ==
    LET params == prev.global_env[LastIns.name].params
        n == IF Len(params) < LastIns.argc THEN Len(params) ELSE LastIns.argc
    IN [p \in {params[i] : i \in 1..n} |->
            CallArgs[CHOOSE i \in 1..n :
                        params[i] = p /\ \A j \in (i + 1)..n : params[j] # p]]

\* The names the caller alone can see: bound in its local map or in a
\* non-base immutable frame, and not in the base frame, the global map or
\* the parameter list.
CallerOnlyNames ==
    ((IF prev.local_env = None THEN {} ELSE DOMAIN prev.local_env.v)
        \cup UNION {DOMAIN prev.immutable_stack[i] : i \in 2..Len(prev.immutable_stack)})
    \ (DOMAIN prev.immutable_stack[1] \cup DOMAIN prev.global_env \cup DOMAIN ParamFrame)

\* C10: on entry to a callee the local map is empty, the immutable stack is
\* the caller's base frame and the parameter frame, and no name only the
\* caller could see is resolvable.
C10_CalleeEnvironment ==
    (Did({"Call"}) /\ status = "running") =>
        /\ local_env = Some(EmptyMap)
        /\ immutable_stack = <<prev.immutable_stack[1], ParamFrame>>
        /\ pointer = 0
        /\ \A n \in CallerOnlyNames : LookupVar(VM, n) = None

\* C10 for main's call f(loc, b): the caller has the local loc and the
\* immutable k in its parameter frame.
C10_Witness ==
    /\ Did({"Call"})
    /\ status = "running"
    /\ LastIns.name = "f"
    /\ {"loc", "k"} \subseteq CallerOnlyNames
    /\ immutable_stack[2] = [p \in {"p", "q"} |-> IF p = "p" THEN IntV(prog.a)
                                                   ELSE IntV(prog.b)]

RECURSIVE Deep(_, _)
\* What a value shows to a reader: an array handle stands for the sequence
\* of what its elements show, any other value for itself.
Deep(s, v) ==
    IF v.tag = "ArrayRef"
    THEN [i \in 1..Len(At(s.array_heap, v.id)) |-> Deep(s, At(s.array_heap, v.id)[i])]
    ELSE v

\* C11: in Clone, the instantiation of B stores in s.f a handle with a new
\* array id whose elements and immutable indices equal those of g, and from
\* then on (the program writes only through s.f) g shows what it showed when
\* it was cloned: <<<<a>>, a, 0>>.
C11_CloneIsolated ==
    (prog.id = "Clone" /\ status = "running" /\ heap # <<>> /\ local_env # None) =>
        LET g == local_env.v["g"]
            f == heap[1].fields["f"]
        IN /\ f.tag = "ArrayRef" /\ f.id # g.id /\ f.id = 2
           /\ Did({"NewStruct"}) =>
                 /\ At(array_heap, f.id) = At(array_heap, g.id)
                 /\ At(array_immutables, f.id) = At(array_immutables, g.id)
           /\ Deep(VM, g) = <<<<IntV(prog.a)>>, IntV(prog.a), IntV(0)>>

\* The storage slots of the VM that hold an array or record handle, each
\* with the handle it holds.
RefSlots ==
    LET all ==
            {<<<<"global", n>>, global_env[n]>> : n \in DOMAIN global_env}
            \cup (IF local_env = None THEN {}
                  ELSE {<<<<"local", n>>, local_env.v[n]>> : n \in DOMAIN local_env.v})
            \cup UNION {{<<<<"immutable", i, n>>, immutable_stack[i][n]>> :
                            n \in DOMAIN immutable_stack[i]} : i \in 1..Len(immutable_stack)}
            \cup UNION {{<<<<"element", i, k>>, array_heap[i][k]>> :
                            k \in 1..Len(array_heap[i])} : i \in 1..Len(array_heap)}
            \cup UNION {{<<<<"field", i, f>>, heap[i].fields[f]>> :
                            f \in DOMAIN heap[i].fields} : i \in 1..Len(heap)}
    IN {p \in all : p[2].tag \in {"ArrayRef", "StructRef"}}

\* C12: no two storage slots hold a handle with the same arena id.
C12_NoSharedIds ==
    \A p, q \in RefSlots :
        (p[1] # q[1]) => (p[2].tag # q[2].tag \/ p[2].id # q[2].id)

\* Every value a slot or the operand stack holds.
HeldValues ==
    {global_env[n] : n \in DOMAIN global_env}
    \cup (IF local_env = None THEN {} ELSE {local_env.v[n] : n \in DOMAIN local_env.v})
    \cup UNION {{immutable_stack[i][n] : n \in DOMAIN immutable_stack[i]} :
                    i \in 1..Len(immutable_stack)}
    \cup UNION {{array_heap[i][k] : k \in 1..Len(array_heap[i])} : i \in 1..Len(array_heap)}
    \cup UNION {{heap[i].fields[f] : f \in DOMAIN heap[i].fields} : i \in 1..Len(heap)}
    \cup {stack[i] : i \in 1..Len(stack)}

\* C13: for every value v the VM holds, when force(v) returns its result is
\* neither a Lazy nor an LValue, and forcing the result returns it again.
C13_ForceIdempotent ==
    status = "running" =>
        \A v \in HeldValues :
            With([r \in {Invoke("Force", <<VM, v>>)} |->
                Running(r.s) =>
                    /\ r.v.tag \notin {"Lazy", "LValue"}
                    /\ Invoke("Force", <<r.s, r.v>>) = r])

\* C13 for a Lazy whose expression evaluates to another Lazy: in Chain the
\* slot z holds Lazy(y), y holds Lazy(x + 1), and force(z) is an Int.
C13_Witness ==
    /\ prog.id = "Chain"
    /\ status = "running"
    /\ local_env # None
    /\ Has(local_env.v, "z")
    /\ local_env.v["z"].tag = "Lazy"
    /\ Invoke("Force", <<VM, local_env.v["z"]>>).v = IntV(local_env.v["x"].n + 1)

\* C14: a load of a name bound to a Lazy leaves the global map, the local
\* map, the immutable stack and the contents of every array and record that
\* existed before it unchanged.
C14_ForceHasNoEffect ==
    (/\ Did({"Load"})
     /\ status = "running"
     /\ LookupVar(prev, LastIns.name) # None
     /\ LookupVar(prev, LastIns.name).v.tag = "Lazy") =>
        /\ global_env = prev.global_env
        /\ local_env = prev.local_env
        /\ immutable_stack = prev.immutable_stack
        /\ SubSeq(array_heap, 1, Len(prev.array_heap)) = prev.array_heap
        /\ SubSeq(heap, 1, Len(prev.heap)) = prev.heap

\* The joined name of the module the last step's Import names.
ModuleName == Join(LastIns.path, ".")

\* The number of times the output holds the integer n.
Printed(n) == Cardinality({i \in 1..Len(output) : output[i] = [int |-> n]})

\* C15: an Import of a name already in imported_modules does nothing but
\* step past the instruction (also inside the module itself or inside a
\* module it imported); an Import that starts a module's code puts its name
\* in imported_modules; names never leave imported_modules; the imports in
\* progress are bounded by the names imported, so no run of the input
\* Imports nests imports without end; and each module of that input, which
\* prints its own number (5, 6, 7), has printed it at most once.
C15_ImportOnce ==
    /\ (prev # None) => (prev.imported_modules \subseteq imported_modules)
    /\ (Did({"Import"}) /\ ModuleName \in prev.imported_modules) =>
            VM = [prev EXCEPT !.pointer = @ + 1]
    /\ (Did({"Import"}) /\ ModuleName \notin prev.imported_modules /\ status = "running") =>
            /\ ModuleName \in imported_modules
            /\ pointer = 0
            /\ code = CompileModule(files[FilePath(LastIns.path)], NewCompileState).code
    /\ Len(import_stack) <= Cardinality(imported_modules)
    /\ (prog.id = "Imports") =>
            /\ status # "diverged"
            /\ \A n \in {5, 6, 7} : Printed(n) <= 1

\* C15 in a cycle: lib.q, imported by lib.p, imports lib.p, whose import is
\* in progress, and nothing is run.
C15_Witness ==
    /\ prog.id = "Imports"
    /\ prog.kind = "Cycle"
    /\ Did({"Import"})
    /\ ModuleName \in prev.imported_modules
    /\ Len(prev.import_stack) = 2
    /\ import_stack = prev.import_stack
    /\ Printed(6) = 1 /\ Printed(7) = 1

\* The last step ended the run() of an import_module.
ImportFinished ==
    /\ prev # None
    /\ prev.status = "running"
    /\ status = "running"
    /\ Len(import_stack) < Len(prev.import_stack)

\* The names the instructions of code with opcode in ops store.
StoredNames(c, ops) == {c[i].name : i \in {j \in 1..Len(c) : c[j].op \in ops}}

\* C16: when the run of a module's code ends, every function and mutable
\* binding its code stores is in the global map, every struct it defines is
\* in struct_defs, and the caller's code, labels and pointer are back, the
\* pointer past the Import.
C16_ModuleInstallsGlobals ==
    ImportFinished =>
        /\ StoredNames(prev.code, {"StoreFunction", "Store"}) \subseteq DOMAIN global_env
        /\ StoredNames(prev.code, {"StoreStruct"}) \subseteq DOMAIN struct_defs
        /\ code = Last(prev.import_stack).code
        /\ labels = Last(prev.import_stack).labels
        /\ pointer = Last(prev.import_stack).pointer + 1
        /\ code[pointer].op = "Import"

\* The frames below the top one that bind name.
OuterBinding(s, name) ==
    \E i \in 1..(Len(s.immutable_stack) - 1) : name \in DOMAIN s.immutable_stack[i]

\* Every binding of every frame of prev is in the same frame with the same
\* value now.
BindingsKept ==
    /\ Len(immutable_stack) >= Len(prev.immutable_stack)
    /\ \A i \in 1..Len(prev.immutable_stack) :
          \A n \in DOMAIN prev.immutable_stack[i] :
              /\ n \in DOMAIN immutable_stack[i]
              /\ immutable_stack[i][n] = prev.immutable_stack[i][n]

\* C17: a store-immutable of a name the top frame binds fails and leaves
\* every frame as it was; of any other name, also one an outer frame binds,
\* it succeeds and changes the immutable stack in just one place, the new
\* binding name -> popped value in the top frame; and every step other than
\* a pop or a clear of a frame, a call or a return keeps every binding of
\* every frame.
C17_StoreImmutableOnce ==
    /\ (Did({"StoreImmutable"}) /\ prev.stack # <<>>) =>
          IF LastIns.name \in DOMAIN Last(prev.immutable_stack)
          THEN /\ status = "panic"
               /\ immutable_stack = prev.immutable_stack
          ELSE /\ status = "running"
               /\ immutable_stack =
                     [prev.immutable_stack EXCEPT ![Len(prev.immutable_stack)] =
                         [n \in DOMAIN @ \cup {LastIns.name} |->
                             IF n = LastIns.name THEN Last(prev.stack) ELSE @[n]]]
               /\ global_env = prev.global_env
               /\ local_env = prev.local_env
    /\ (/\ prev # None
        /\ prev.status = "running"
        /\ ~Did({"PopImmutableContext", "ClearImmutableContext", "Call", "Return"})) =>
          BindingsKept

\* C17 with an outer binding: x := b + 3 in the if block of Rebind succeeded
\* while the frame of main binds x.
C17_Witness ==
    /\ Did({"StoreImmutable"})
    /\ OuterBinding(prev, LastIns.name)
    /\ status = "running"
    /\ Last(immutable_stack)[LastIns.name] = Last(prev.stack)
    /\ FindImmutable(prev, LastIns.name) # Some(Last(prev.stack))

\* C17 in one frame: the second x := of Rebind failed.
C17_SameFrame ==
    /\ Did({"StoreImmutable"})
    /\ LastIns.name \in DOMAIN Last(prev.immutable_stack)
    /\ status = "panic"

\* The frames of prev that bind name.
FramesBinding(name) ==
    {i \in 1..Len(prev.immutable_stack) : name \in DOMAIN prev.immutable_stack[i]}

\* The binding a load of name must resolve to in prev, when there is one.
Resolved(name) ==
    IF FramesBinding(name) # {}
    THEN prev.immutable_stack[CHOOSE i \in FramesBinding(name) :
                                 \A j \in FramesBinding(name) : j <= i][name]
    ELSE IF prev.local_env # None /\ name \in DOMAIN prev.local_env.v
    THEN prev.local_env.v[name]
    ELSE prev.global_env[name]

\* No frame and no map of prev binds name for a load.
Unbound(name) ==
    /\ FramesBinding(name) = {}
    /\ prev.local_env = None \/ name \notin DOMAIN prev.local_env.v
    /\ name \notin DOMAIN prev.global_env

\* C18: a load of a name nothing binds fails with "undefined variable" and
\* pushes nothing; a load of a bound name pushes the value of the innermost
\* immutable frame that binds it, else of the local map while a call is
\* active, else of the global map (for a binding that holds no reactive
\* expression the value itself is pushed).
C18_LoadResolution ==
    Did({"Load"}) =>
        IF Unbound(LastIns.name)
        THEN /\ status = "panic"
             /\ err = "undefined variable"
             /\ stack = prev.stack
        ELSE (Resolved(LastIns.name).tag \notin {"Lazy", "LValue"}) =>
                /\ status = "running"
                /\ stack = Append(prev.stack, Resolved(LastIns.name))

\* C18 with all three bindings: v of Lookup is bound in the if block's frame
\* (7), in the local map of main and in the global map, and 7 was pushed.
C18_Witness ==
    /\ Did({"Load"})
    /\ FramesBinding(LastIns.name) # {}
    /\ prev.local_env # None
    /\ LastIns.name \in DOMAIN prev.local_env.v
    /\ LastIns.name \in DOMAIN prev.global_env
    /\ Cardinality({Resolved(LastIns.name), prev.local_env.v[LastIns.name],
                    prev.global_env[LastIns.name]}) = 3
    /\ Last(stack) = Resolved(LastIns.name)

\* C18 with no binding: the load of u in Lookup failed.
C18_Undefined ==
    /\ Did({"Load"})
    /\ Unbound(LastIns.name)
    /\ status = "panic"

\* C18 with a local and a global binding: the local one was pushed.
C18_LocalOverGlobal ==
    /\ Did({"Load"})
    /\ FramesBinding(LastIns.name) = {}
    /\ prev.local_env # None
    /\ LastIns.name \in DOMAIN prev.local_env.v
    /\ LastIns.name \in DOMAIN prev.global_env
    /\ prev.local_env.v[LastIns.name] # prev.global_env[LastIns.name]
    /\ Last(stack) = prev.local_env.v[LastIns.name]

\* The map m with name bound to v and every other binding as it was.
Rebound(m, name, v) == [n \in DOMAIN m \cup {name} |-> IF n = name THEN v ELSE m[n]]

\* The value a store-mutable or store-reactive instruction binds: the popped
\* value, or some reactive expression.
StoredValueOk(v) ==
    IF LastIns.op = "Store" THEN v = Last(prev.stack) ELSE v.tag = "Lazy"

\* C19: a store-mutable (with a value to pop) or store-reactive executed
\* while a call is active succeeds whatever the immutable frames bind, and
\* changes the local map in the stored name only, the global map and the
\* immutable frames not at all; executed outside any call it fails, with
\* the global map as it was, when some frame binds the name, and otherwise
\* changes the global map in the stored name only and leaves no local map.
C19_MutableStoreTarget ==
    (Did({"Store", "StoreReactive"}) /\ (LastIns.op = "Store" => prev.stack # <<>>)) =>
        IF prev.local_env # None
        THEN /\ status = "running"
             /\ local_env # None
             /\ LastIns.name \in DOMAIN local_env.v
             /\ StoredValueOk(local_env.v[LastIns.name])
             /\ local_env.v = Rebound(prev.local_env.v, LastIns.name, local_env.v[LastIns.name])
             /\ global_env = prev.global_env
             /\ immutable_stack = prev.immutable_stack
        ELSE IF FramesBinding(LastIns.name) # {}
        THEN /\ status = "panic"
             /\ global_env = prev.global_env
             /\ local_env = None
             /\ immutable_stack = prev.immutable_stack
        ELSE /\ status = "running"
             /\ LastIns.name \in DOMAIN global_env
             /\ StoredValueOk(global_env[LastIns.name])
             /\ global_env = Rebound(prev.global_env, LastIns.name, global_env[LastIns.name])
             /\ local_env = None
             /\ immutable_stack = prev.immutable_stack

\* C19 inside a call: x ::= b in main of StoreOver, whose frame binds x,
\* put a reactive expression in the local map.
C19_Witness ==
    /\ Did({"StoreReactive"})
    /\ prev.local_env # None
    /\ FramesBinding(LastIns.name) # {}
    /\ status = "running"
    /\ local_env.v[LastIns.name].tag = "Lazy"
    /\ LastIns.name \notin DOMAIN global_env

\* C19 inside a call with a global of the same name: g = b + 3 in main of
\* StoreOver left the global g alone.
C19_GlobalKept ==
    /\ Did({"Store"})
    /\ prev.local_env # None
    /\ LastIns.name \in DOMAIN prev.global_env
    /\ local_env.v[LastIns.name] # global_env[LastIns.name]

\* C19 outside any call: the store in the if block failed on the binding of
\* the frame below; the reactive store failed on the binding of its own frame.
C19_TopOuter ==
    /\ Did({"Store"})
    /\ prev.local_env = None
    /\ OuterBinding(prev, LastIns.name)
    /\ LastIns.name \notin DOMAIN Last(prev.immutable_stack)
    /\ status = "panic"

C19_TopReactive ==
    /\ Did({"StoreReactive"})
    /\ prev.local_env = None
    /\ FramesBinding(LastIns.name) # {}
    /\ status = "panic"

\* What println writes for the integers 0, 1, .., k - 1 in turn.
Counted(k) == [j \in 1..(2 * k) |-> IF j % 2 = 1 THEN [int |-> (j - 1) \div 2] ELSE [nl |-> TRUE]]

\* C20: ClearImmutableContext, the first instruction of every loop
\* iteration, empties the top frame and changes no other; so in OneShot,
\* whose loop body binds n := i in each of its a + 1 iterations (after an
\* inner loop left by break, in the variant Nested), and in LoopBreak no
\* store-immutable fails, and OneShot prints 0, 1, .., a and stops.
C20_LoopRebinds ==
    /\ Did({"ClearImmutableContext"}) =>
          /\ status = "running"
          /\ immutable_stack =
                [prev.immutable_stack EXCEPT ![Len(prev.immutable_stack)] = EmptyMap]
          /\ pointer = prev.pointer + 1
    /\ \A p \in 1..Len(code) :
          (code[p].op = "Jump" /\ labels[code[p].label] < p) =>
              At(code, labels[code[p].label] + 1).op = "ClearImmutableContext"
    /\ (prog.id \in {"OneShot", "LoopBreak"}) =>
          /\ status \in {"running", "done"}
          /\ Did({"StoreImmutable"}) =>
                Last(immutable_stack)[LastIns.name] = Last(prev.stack)
    /\ (prog.id = "OneShot") =>
          /\ Len(output) <= 2 * (prog.a + 1)
          /\ output = Counted(Len(output) \div 2)
          /\ (status = "done") => output = Counted(prog.a + 1)

\* C20 in a later iteration: n := i succeeded with i > 0 in OneShot, after
\* the iteration that bound n to i - 1 and printed it.
C20_Witness ==
    /\ prog.id = "OneShot"
    /\ Did({"StoreImmutable"})
    /\ LastIns.name = "n"
    /\ status = "running"
    /\ Last(prev.stack).n > 0
    /\ Last(immutable_stack)["n"] = Last(prev.stack)
    /\ output = Counted(Last(prev.stack).n)

\* C20 at the end: OneShot printed 0, 1, 2 and stopped.
C20_Done ==
    /\ prog.id = "OneShot"
    /\ status = "done"
    /\ output = Counted(3)

\* C21: the immutable stack holds at least one frame in every state; a
\* pop-immutable-scope with one frame left fails and leaves that frame, and
\* with more frames removes the top one only.
C21_RootFrameStays ==
    /\ Len(immutable_stack) >= 1
    /\ \A i \in 1..Len(call_stack) : Len(call_stack[i].immutable_stack) >= 1
    /\ Did({"PopImmutableContext"}) =>
          IF Len(prev.immutable_stack) <= 1
          THEN /\ status = "panic"
               /\ immutable_stack = prev.immutable_stack
          ELSE /\ status = "running"
               /\ immutable_stack = Front(prev.immutable_stack)

\* C21 at the root: the second PopImmutableContext of PopCode failed.
C21_Witness ==
    /\ Did({"PopImmutableContext"})
    /\ Len(prev.immutable_stack) = 1
    /\ status = "panic"
    /\ Len(immutable_stack) = 1

\* Every value a storage slot holds: the bindings of the global map, of the
\* local map and of the local maps saved in call frames, the array elements
\* and the record fields.
StoredValues ==
    {global_env[n] : n \in DOMAIN global_env}
    \cup (IF local_env = None THEN {} ELSE {local_env.v[n] : n \in DOMAIN local_env.v})
    \cup UNION {IF call_stack[i].local_env = None THEN {}
                ELSE {call_stack[i].local_env.v[n] : n \in DOMAIN call_stack[i].local_env.v} :
                    i \in 1..Len(call_stack)}
    \cup UNION {{array_heap[i][k] : k \in 1..Len(array_heap[i])} : i \in 1..Len(array_heap)}
    \cup UNION {{heap[i].fields[f] : f \in DOMAIN heap[i].fields} : i \in 1..Len(heap)}

\* C22: in every state of a run of compiled code no global binding, local
\* binding, array element or record field is an LValue.
C22_NoStoredPath ==
    (prog.id \notin {"StoreIndexCode", "PopCode"}) =>
        \A v \in StoredValues : v.tag # "LValue"

\* C22 with a path on the operand stack: a store-through consumed the path
\* under its value, and no slot holds a path afterwards.
C22_Witness ==
    /\ prog.id \notin {"StoreIndexCode", "PopCode"}
    /\ Did({"StoreThrough", "StoreThroughImmutable"})
    /\ status = "running"
    /\ Len(prev.stack) >= 2
    /\ prev.stack[Len(prev.stack) - 1].tag = "LValue"
    /\ \A i \in 1..Len(stack) : stack[i].tag # "LValue"
    /\ \A v \in StoredValues : v.tag # "LValue"

\* C22 with a path as the value of an initializer: in UninitImm and in
\* InitCall a field initializer names a sibling, which the instantiation
\* binds to a path, and the new record's fields hold none.
C22_InitializerPath ==
    /\ prog.id \in {"UninitImm", "InitCall"}
    /\ Did({"NewStruct"})
    /\ status = "running"
    /\ heap # <<>>

\* The fields of the record definition name that have an initializer run at
\* instantiation.
EagerFields(name) ==
    {prev.struct_defs[name][i].name :
        i \in {j \in 1..Len(prev.struct_defs[name]) :
                  prev.struct_defs[name][j].mode \in {"Mutable", "Immutable"}}}

\* C23: the Uninitialized sentinel is on no operand stack entry and in no
\* variable; a field-get of a field that holds it fails with "use of
\* uninitialized struct field"; and a record instantiation that succeeds
\* has read no unset sibling, so none of its fields with an eager
\* initializer holds the sentinel.
C23_UninitializedNeverRead ==
    /\ \A i \in 1..Len(stack) : stack[i].tag # "Uninitialized"
    /\ \A n \in DOMAIN global_env : global_env[n].tag # "Uninitialized"
    /\ (local_env # None) =>
          \A n \in DOMAIN local_env.v : local_env.v[n].tag # "Uninitialized"
    /\ (/\ Did({"FieldGet"})
        /\ prev.stack # <<>>
        /\ Last(prev.stack).tag = "StructRef"
        /\ LastIns.name \in DOMAIN At(prev.heap, Last(prev.stack).id).fields
        /\ At(prev.heap, Last(prev.stack).id).fields[LastIns.name].tag = "Uninitialized") =>
          /\ status = "panic"
          /\ err = "use of uninitialized struct field"
    /\ (Did({"NewStruct"}) /\ status = "running") =>
          \A f \in EagerFields(LastIns.name) : Last(heap).fields[f].tag # "Uninitialized"

\* The last step was a store-through-immutable to a record field.
ImmutableFieldStore ==
    /\ Did({"StoreThroughImmutable"})
    /\ Len(prev.stack) >= 2
    /\ WriteTarget.tag = "LValue"
    /\ WriteTarget.kind = "StructField"
    /\ WriteTarget.field \in DOMAIN At(prev.heap, WriteTarget.struct_id).fields

\* The last step was a store-through-immutable to an array index in bounds.
ImmutableElemStore ==
    /\ Did({"StoreThroughImmutable"})
    /\ Len(prev.stack) >= 2
    /\ WriteTarget.tag = "LValue"
    /\ WriteTarget.kind = "ArrayElem"
    /\ WriteTarget.array_id < Len(prev.array_immutables)
    /\ WriteTarget.index < Len(At(prev.array_heap, WriteTarget.array_id))

\* C24, the single store: a store-through-immutable to a field succeeds
\* exactly when the field holds Uninitialized, and to an array index exactly
\* when the index is unmarked; on success the slot holds the stored value
\* and is marked; on failure the record and array arenas and the marks are
\* as before.
C24_SingleStore ==
    /\ ImmutableFieldStore =>
          IF At(prev.heap, WriteTarget.struct_id).fields[WriteTarget.field] = Uninitialized
          THEN /\ status = "running"
               /\ WriteTarget.field \in At(heap, WriteTarget.struct_id).immutables
               /\ (Last(prev.stack).tag # "LValue") =>
                     At(heap, WriteTarget.struct_id).fields[WriteTarget.field] = Last(prev.stack)
          ELSE /\ status = "panic"
               /\ heap = prev.heap
    /\ ImmutableElemStore =>
          IF WriteTarget.index \notin At(prev.array_immutables, WriteTarget.array_id)
          THEN /\ status = "running"
               /\ WriteTarget.index \in At(array_immutables, WriteTarget.array_id)
               /\ (Last(prev.stack).tag # "LValue") =>
                     At(array_heap, WriteTarget.array_id)[WriteTarget.index + 1] = Last(prev.stack)
          ELSE /\ status = "panic"
               /\ array_heap = prev.array_heap
               /\ array_immutables = prev.array_immutables

\* C24: the single store as above, and a store-through-immutable to a slot
\* that an earlier store-through-immutable marked fails and leaves the
\* slot's value: for an array index whenever the index is marked, for a
\* record field in WriteOnce, whose record W declares its field bare, so
\* that only a store-through-immutable has marked it.
C24_WriteOnce ==
    /\ C24_SingleStore
    /\ (ImmutableElemStore
        /\ WriteTarget.index \in At(prev.array_immutables, WriteTarget.array_id)) =>
          /\ status = "panic"
          /\ array_heap = prev.array_heap
    /\ (/\ prog.id = "WriteOnce"
        /\ ImmutableFieldStore
        /\ WriteTarget.field \in At(prev.heap, WriteTarget.struct_id).immutables) =>
          /\ status = "panic"
          /\ heap = prev.heap

\* The arenas of arrays and their marks are as before the last step.
ArraysUnchanged ==
    /\ array_heap = prev.array_heap
    /\ array_immutables = prev.array_immutables

\* The last step was a store-through of some kind to a path into an array
\* whose index is not below the array's length.
StorePastEnd ==
    /\ Did({"StoreThrough", "StoreThroughReactive", "StoreThroughImmutable"})
    /\ Len(prev.stack) >= (IF LastIns.op = "StoreThroughReactive" THEN 1 ELSE 2)
    /\ WriteTarget.tag = "LValue"
    /\ WriteTarget.kind = "ArrayElem"
    /\ WriteTarget.array_id < Len(prev.array_heap)
    /\ WriteTarget.index >= Len(At(prev.array_heap, WriteTarget.array_id))

\* C25: new-array of a size n >= 0 (0 too) succeeds and adds an array of n
\* elements with no marks, of a negative size it fails; an array-get with an
\* index below 0 or not below the length fails; a path with a negative
\* index is never made (array-lvalue fails), and every kind of store-through
\* to a path whose index is not below the length fails; each failure leaves
\* the array arena and the marks as they were.
C25_Bounds ==
    /\ (Did({"ArrayNew"}) /\ prev.stack # <<>> /\ Last(prev.stack).tag = "Int") =>
          IF Last(prev.stack).n < 0
          THEN status = "panic" /\ ArraysUnchanged
          ELSE /\ status = "running"
               /\ array_heap = Append(prev.array_heap, [i \in 1..Last(prev.stack).n |-> IntV(0)])
               /\ array_immutables = Append(prev.array_immutables, {})
               /\ Last(stack) = ArrayRef(Len(prev.array_heap))
    /\ (/\ Did({"ArrayGet"})
        /\ Len(prev.stack) >= 2
        /\ Last(prev.stack).tag = "Int"
        /\ prev.stack[Len(prev.stack) - 1].tag = "ArrayRef"
        /\ \/ Last(prev.stack).n < 0
           \/ Last(prev.stack).n >= Len(At(prev.array_heap, prev.stack[Len(prev.stack) - 1].id))) =>
          status = "panic" /\ ArraysUnchanged
    /\ (/\ Did({"ArrayLValue"})
        /\ prev.stack # <<>>
        /\ Last(prev.stack).tag = "Int"
        /\ Last(prev.stack).n < 0) =>
          status = "panic" /\ ArraysUnchanged
    /\ \A i \in 1..Len(stack) :
          (stack[i].tag = "LValue" /\ stack[i].kind = "ArrayElem") => stack[i].index >= 0
    /\ StorePastEnd => (status = "panic" /\ ArraysUnchanged)

\* C25 for the write that has no check of its own: store-through-immutable
\* to an unmarked index past the end failed and marked nothing.
C25_Witness ==
    /\ StorePastEnd
    /\ LastIns.op = "StoreThroughImmutable"
    /\ status = "panic"
    /\ ArraysUnchanged

\* C25 for an array of size 0: it was made, and a read of its index 0 failed.
C25_EmptyArray ==
    /\ Did({"ArrayGet"})
    /\ array_heap = <<<<>>>>
    /\ Last(prev.stack) = IntV(0)
    /\ status = "panic"
\* The operands of the binary instruction of the last step: the top of the
\* stack is the right one, the entry under it the left one.
RightOperand == Last(prev.stack)

LeftOperand == prev.stack[Len(prev.stack) - 1]

\* The last step was the handler of an instruction in ops on two operands
\* that are an Int or a Char each.
DidOn(ops) ==
    /\ Did(ops)
    /\ Len(prev.stack) >= 2
    /\ RightOperand.tag \in {"Int", "Char"}
    /\ LeftOperand.tag \in {"Int", "Char"}

\* The integer an Int or a Char coerces to.
Coerced(v) == IF v.tag = "Int" THEN v.n ELSE v.c

\* C26: a division or modulo instruction whose right operand coerces to
\* zero fails with an arithmetic fault and pushes nothing, whatever the tags
\* of the two operands; and so does the same operation in a reactive
\* expression (DivZero with a divisor 0 or the Char of code 0 never
\* completes).
C26_ZeroDivisorFaults ==
    /\ (DidOn({"Div", "Modulo"}) /\ Coerced(RightOperand) = 0) =>
          /\ status = "panic"
          /\ err = "arithmetic fault"
          /\ Len(stack) # Len(prev.stack) - 1
    /\ (prog.id = "DivZero" /\ prog.b \in {0, 1} /\ status # "running") =>
          /\ status = "panic"
          /\ err = "arithmetic fault"

\* The truth value of an integer as the claim reads it: nonzero.
Truth(n) == n # 0

\* What `and` and `or` give on a and b by the claim.
Logical(o, a, b) ==
    IF o = "And" THEN Bool(Truth(a) /\ Truth(b)) ELSE Bool(Truth(a) \/ Truth(b))

\* C27: an `and` or `or` instruction on two integers pushes 1 when both
\* (either) are nonzero and 0 otherwise, negative operands included; and
\* Logic, which applies the operator to a - 1 and b - 1 in an instruction or
\* in a reactive expression, prints that value.
C27_NonzeroIsTrue ==
    /\ (DidOn({"And", "Or"}) /\ RightOperand.tag = "Int" /\ LeftOperand.tag = "Int") =>
          /\ status = "running"
          /\ Len(stack) = Len(prev.stack) - 1
          /\ Last(stack) = IntV(Logical(LastIns.op, LeftOperand.n, RightOperand.n))
    /\ (prog.id = "Logic" /\ status = "done") =>
          output = <<[int |-> Logical(KindOperator(prog.kind), prog.a - 1, prog.b - 1)],
                     [nl |-> TRUE]>>

\* The exact result of left o right on the coerced operands, reduced to 32
\* bits (the remainder takes the sign of the left operand, as in Rust).
Exact(o, l, r) ==
    CASE o = "Addition" -> WrappingAdd(l, r)
      [] o = "Subtraction" -> WrappingSub(l, r)
      [] o = "Modulo" -> TruncRem(l, r)

\* The value add, sub and modulo give on two operands by the claim: a Char
\* when one of them is a Char, an Int otherwise.
ExactValue(o, lv, rv) ==
    IF lv.tag = "Char" \/ rv.tag = "Char"
    THEN CharV(Exact(o, Coerced(lv), Coerced(rv)))
    ELSE IntV(Exact(o, Coerced(lv), Coerced(rv)))

\* The last step was an add, sub or modulo instruction on an Int or a Char
\* each, one of them a Char, the modulus not zero.
CharInstruction ==
    /\ DidOn({"Add", "Sub", "Modulo"})
    /\ "Char" \in {LeftOperand.tag, RightOperand.tag}
    /\ LastIns.op = "Modulo" => Coerced(RightOperand) # 0

\* C28: add, sub and modulo on a Char with an Int (in either order) or on
\* two Chars succeed, the modulus not being zero, and push the Char of the
\* exact result modulo 2^32 (no failure on overflow or on a negative
\* difference); on two Ints they push an Int; so no CharArith program,
\* whose moduli are not zero, fails.
C28_CharArithmeticWraps ==
    /\ CharInstruction =>
          /\ status = "running"
          /\ Len(stack) = Len(prev.stack) - 1
          /\ Last(stack) = ExactValue(InstrOperator(LastIns.op), LeftOperand, RightOperand)
    /\ (/\ DidOn({"Add", "Sub", "Modulo"})
        /\ LeftOperand.tag = "Int" /\ RightOperand.tag = "Int"
        /\ status = "running") => Last(stack).tag = "Int"
    /\ (prog.id = "CharArith" /\ status # "running") => status = "done"

\* A literal operand's value.
Literal(ast) == IF ast.k = "Char" THEN CharV(ast.c) ELSE IntV(ast.n)

\* v is left o right on the coerced operands, and a Char when the left
\* operand is an Int and the right one a Char.
LeftFirst(v, o, lv, rv) ==
    /\ v.tag \in {"Int", "Char"}
    /\ Coerced(v) = Exact(o, Coerced(lv), Coerced(rv))
    /\ (lv.tag = "Int" /\ rv.tag = "Char") => v.tag = "Char"

\* C30: a sub or modulo instruction that succeeds pushes left minus right,
\* left modulo right, for every combination of tags: with an Int n on the
\* left and a Char c on the right Char((n - c) mod 2^32) and Char(n mod c),
\* and for the unary minus of a Char, 0 - c, Char((0 - c) mod 2^32); and
\* the value CharArith stores to x (to y, from the reactive x) under - and %
\* is that value.
C30_LeftMinusRight ==
    /\ (DidOn({"Sub", "Modulo"}) /\ status = "running") =>
          LeftFirst(Last(stack), InstrOperator(LastIns.op), LeftOperand, RightOperand)
    /\ (/\ prog.id = "CharArith"
        /\ KindOperator(prog.kind) \in {"Subtraction", "Modulo"}
        /\ Did({"Store"})
        /\ status = "running") =>
          LeftFirst(Last(prev.stack), KindOperator(prog.kind),
                    IF prog.kind \in {"Negate", "LazyNegate"}
                    THEN IntV(0) ELSE Literal(Operand(prog.a)),
                    Literal(Operand(IF prog.kind \in {"Negate", "LazyNegate"}
                                    THEN prog.a ELSE prog.b)))

\* The immutable set of every instance of prev is as it was.
ImmutablesKept ==
    /\ Len(heap) >= Len(prev.heap)
    /\ \A i \in 1..Len(prev.heap) : heap[i].immutables = prev.heap[i].immutables

\* C29: the immutable set of an instance changes after instantiation only
\* by a store-through-immutable that succeeds, to that instance, and by the
\* written field only; so in Rewrite, which writes the mutable field y with
\* store-through or store-through-reactive and then again, the second write
\* succeeds and the program prints b.
C29_ModeFixed ==
    /\ (prev # None /\ ~(Did({"StoreThroughImmutable"}) /\ status = "running")) =>
          ImmutablesKept
    /\ (Did({"StoreThroughImmutable"}) /\ status = "running") =>
          /\ Len(heap) = Len(prev.heap)
          /\ \A i \in 1..Len(heap) :
                heap[i].immutables =
                    IF WriteTarget.kind = "StructField" /\ i = WriteTarget.struct_id + 1
                    THEN prev.heap[i].immutables \cup {WriteTarget.field}
                    ELSE prev.heap[i].immutables
    /\ (prog.id = "Rewrite" /\ status # "running") =>
          /\ status = "done"
          /\ output = <<[int |-> prog.b], [nl |-> TRUE]>>

\* C31: while the Lazy of a record field is forced, a free name of its
\* expression that is a field name of the record reads that field's current
\* value, whatever the same-named immutable (an integer bound when the
\* reactive write was installed included), local or global binding: Shadow,
\* whose p.y ::= x + 1 is installed under a binding of x and forced after
\* p.x = b + 1, prints b + 2.
C31_FieldShadows ==
    (prog.id = "Shadow" /\ status # "running") =>
        /\ status = "done"
        /\ output = <<[int |-> prog.b + 2], [nl |-> TRUE]>>

\* The offset of the Label instruction of label l in code c.
LabelAt(c, l) == CHOOSE i \in 0..(Len(c) - 1) : c[i + 1].op = "Label" /\ c[i + 1].label = l

\* The loops of code c around offset p, each named by the number of its
\* start label: a loop's lowering is the instructions from its start label
\* to its end label, whose number is the next one.
EnclosingLoops(c, p) ==
    {k \in 0..Len(c) :
        /\ <<"loop_start", k>> \in LabelNames(c)
        /\ <<"loop_end", k + 1>> \in LabelNames(c)
        /\ LabelAt(c, <<"loop_start", k>>) < p
        /\ p < LabelAt(c, <<"loop_end", k + 1>>)}

\* The innermost of them: the one that starts last.
InnermostLoop(c, p) ==
    CHOOSE k \in EnclosingLoops(c, p) :
        \A j \in EnclosingLoops(c, p) :
            LabelAt(c, <<"loop_start", j>>) <= LabelAt(c, <<"loop_start", k>>)

\* The last step was the jump a break is lowered to.
DidBreak == Did({"Jump"}) /\ LastIns.label[1] = "loop_end"

\* What Breaks prints: b once for each of the a + 1 rounds of its outer
\* loop, then 9.
BreaksOutput(a, b) ==
    [j \in 1..(2 * a + 4) |->
        IF j % 2 = 0 THEN [nl |-> TRUE]
        ELSE IF j = 2 * a + 3 THEN [int |-> 9] ELSE [int |-> b]]

\* C32: the jump of a break continues at the end label of the innermost
\* loop around it in the same code, in the same code and call; so in Breaks
\* the inner break leaves the inner loop only, the outer loop goes on with
\* its own statements for each of its rounds, and is left by its own break.
C32_BreakLeavesInnermost ==
    /\ DidBreak =>
          /\ status = "running"
          /\ code = prev.code
          /\ call_stack = prev.call_stack
          /\ EnclosingLoops(prev.code, prev.pointer) # {}
          /\ pointer = LabelAt(prev.code,
                               <<"loop_end", InnermostLoop(prev.code, prev.pointer) + 1>>)
    /\ (prog.id = "Breaks" /\ status # "running") =>
          /\ status = "done"
          /\ output = BreaksOutput(prog.a, prog.b)

\* A break in an inner loop, with an outer loop around it, has been executed.
C32_Witness ==
    /\ DidBreak
    /\ Cardinality(EnclosingLoops(prev.code, prev.pointer)) = 2
    /\ prog.id = "Breaks"
    /\ prog.a >= 1

\* Breaks has run to its end, through an outer loop of more than one round.
C32_Done ==
    /\ prog.id = "Breaks"
    /\ prog.a >= 1
    /\ status = "done"

\* The last step was the last instruction of the lowering of a string
\* literal: the load of its temporary that no store of a char follows.
DidStringLiteral ==
    /\ Did({"Load"})
    /\ LastIns.name \in StrlitNames
    /\ ~(/\ prev.pointer + 3 <= Len(prev.code)
         /\ prev.code[prev.pointer + 2].op = "Push"
         /\ prev.code[prev.pointer + 3].op = "ArrayLValue")

\* The position (1-based) in code c of the store of the temporary that the
\* lowering ending at position p began with.
StrlitStore(c, p) ==
    CHOOSE q \in 1..p :
        /\ c[q].op = "Store" /\ c[q].name = c[p].name
        /\ \A r \in (q + 1)..p : ~(c[r].op = "Store" /\ c[r].name = c[p].name)

\* The chars of the literal whose lowering ends at position p of code c, as
\* values: the operands of its PushChar instructions.
StrlitChars(c, p) ==
    [i \in 1..((p - StrlitStore(c, p) - 1) \div 5) |->
        CharV(c[StrlitStore(c, p) + 5 * i - 1].n)]

PlainChar(e) == e.tag = "Char" \/ (e.tag = "Lazy" /\ e.ast.k = "Char")

CharOf(e) == IF e.tag = "Char" THEN e.c ELSE e.ast.c

\* An element whose forcing is plain: as above, or an Int.
PlainElem(e) == PlainChar(e) \/ e.tag = "Int"

\* The value the print of the last step popped, and its array when it is
\* an ArrayRef.
PrintedValue == Last(prev.stack)

PrintedArray == At(prev.array_heap, PrintedValue.id)

\* The last step was a print or println of an Int, of a Char, or of an array
\* of plain elements.
DidPrint ==
    /\ Did({"Print", "Println"})
    /\ Len(prev.stack) >= 1
    /\ \/ PrintedValue.tag \in {"Int", "Char"}
       \/ /\ PrintedValue.tag = "ArrayRef"
          /\ \A i \in 1..Len(PrintedArray) : PlainElem(PrintedArray[i])

\* What the claim has a print write for the printed value.
Shown ==
    CASE PrintedValue.tag = "Int" -> [int |-> PrintedValue.n]
      [] PrintedValue.tag = "Char" -> [chars |-> <<PrintedValue.c>>]
      [] PrintedValue.tag = "ArrayRef" ->
            IF \A i \in 1..Len(PrintedArray) : PlainChar(PrintedArray[i])
            THEN [chars |-> [i \in 1..Len(PrintedArray) |-> CharOf(PrintedArray[i])]]
            ELSE [int |-> Len(PrintedArray)]

\* C34: print and println write an Int in decimal, a Char as its code
\* point, an array as its elements' chars when every element forces to a
\* Char and as its length in decimal otherwise; println then ends the line.
C34_PrintFormats ==
    DidPrint =>
        /\ status = "running"
        /\ output = prev.output \o <<Shown>>
                    \o (IF LastIns.op = "Println" THEN <<[nl |-> TRUE]>> ELSE <<>>)


\* C35: in every reachable state the array arena and the table of
\* element-immutable indices have the same length, whichever way the arrays
\* were allocated.
C35_TablesAligned ==
    Len(array_heap) = Len(array_immutables)


\* The field names of the instances of heap h, in the order of their ids.
FieldNames(h) == [i \in 1..Len(h) |-> DOMAIN h[i].fields]

FieldWrites ==
    {"FieldSet", "FieldSetReactive", "StoreThrough", "StoreThroughReactive",
     "StoreThroughImmutable"}

\* The last instruction was a write through a path to a field its instance
\* does not have.
DidMissingPath ==
    /\ Did({"StoreThrough", "StoreThroughReactive", "StoreThroughImmutable"})
    /\ WriteTarget.tag = "LValue"
    /\ WriteTarget.kind = "StructField"
    /\ ~Has(At(prev.heap, WriteTarget.struct_id).fields, WriteTarget.field)

\* C36: the field names of a record instance never change after its
\* instantiation: a write instruction naming a field the instance does not
\* have fails with unknown field, and no write adds a field.
C36_FieldSetFixed ==
    /\ Did(FieldWrites) =>
          SubSeq(FieldNames(heap), 1, Len(prev.heap)) = FieldNames(prev.heap)
    /\ DidMissingPath => (status = "panic" /\ err = "unknown struct field")


\* C37: when a store-mutable of v to x succeeds, x resolves to v right after
\* it, so that the next load of x yields v; also when x is a parameter or is
\* bound in an immutable frame while a call is active.
C37_ReadYourWrite ==
    (Did({"Store"}) /\ status = "running") =>
        LookupVar(VM, LastIns.name) = Some(Last(prev.stack))


\* The Cycles programs whose reactive binding reads itself.
Cyclic == {"Self", "Mutual", "Sibling", "Element"}

\* What the acyclic Cycles programs print: the end of the chain over the
\* current value of its last dependency, before and after that is written.
CyclesOutput(kind, a, b) ==
    LET n == IF kind = "Acyclic" THEN 3 ELSE 2
    IN <<[int |-> a + n], [nl |-> TRUE], [int |-> b + n], [nl |-> TRUE]>>

\* C38: forcing an acyclic chain of reactive bindings returns the value
\* derived from the current value of the chain's last dependency; forcing a
\* reactive binding that reads itself (directly, through another reactive
\* binding, through a sibling field or through its array element) does not
\* return: the run neither prints nor fails nor ends.
C38_ChainsForce ==
    prog.id = "Cycles" =>
        IF prog.kind \in Cyclic
        THEN /\ output = <<>>
             /\ status \in {"running", "diverged"}
        ELSE /\ status \in {"running", "done"}
             /\ Len(output) <= 4
             /\ output = SubSeq(CyclesOutput(prog.kind, prog.a, prog.b), 1, Len(output))
             /\ status = "done" => Len(output) = 4

C38_Witness ==
    /\ prog.id = "Cycles"
    /\ prog.kind = "Sibling"
    /\ status = "diverged"

C38_Done ==
    /\ prog.id = "Cycles"
    /\ prog.kind = "Acyclic"
    /\ prog.a # prog.b
    /\ status = "done"


\* The handles (arrays and records) the fields of instance id of heap h hold.
FieldHandles(h, id) ==
    {[tag |-> v.tag, id |-> v.id] :
        v \in {x \in {At(h, id).fields[f] : f \in DOMAIN At(h, id).fields} :
                  x.tag \in {"ArrayRef", "StructRef"}}}

\* The handle v did not exist in the arenas of VM record s.
Fresh(s, v) ==
    IF v.tag = "ArrayRef" THEN v.id >= Len(s.array_heap) ELSE v.id >= Len(s.heap)

\* What the Twins programs print: q, g and u as they were before the write
\* through p.
TwinsOutput(a) ==
    <<[int |-> 0], [nl |-> TRUE], [int |-> a], [nl |-> TRUE], [int |-> 0], [nl |-> TRUE],
      [int |-> 0], [nl |-> TRUE], [int |-> a], [nl |-> TRUE], [int |-> 0], [nl |-> TRUE]>>

\* C39: a new-struct that succeeds yields a record id that did not exist
\* before, whose fields hold only array and record ids that did not exist
\* before, no two fields the same one; and in Twins a write through instance p
\* (to a field, into an array or a record its field holds) is not seen through
\* the instance q of the same definition.
C39_InstancesDisjoint ==
    /\ (Did({"NewStruct"}) /\ status = "running") =>
          LET r == Last(stack)
              held == {f \in DOMAIN At(heap, r.id).fields :
                          At(heap, r.id).fields[f].tag \in {"ArrayRef", "StructRef"}}
          IN /\ r.tag = "StructRef"
             /\ Fresh(prev, r)
             /\ \A v \in FieldHandles(heap, r.id) : Fresh(prev, v) /\ v # r
             /\ Cardinality(FieldHandles(heap, r.id)) = Cardinality(held)
    /\ prog.id = "Twins" =>
          /\ status \in {"running", "done"}
          /\ Len(output) <= 12
          /\ output = SubSeq(TwinsOutput(prog.a), 1, Len(output))
          /\ status = "done" => Len(output) = 12

C39_Witness ==
    /\ prog.id = "Twins"
    /\ prog.kind = "Array"
    /\ prog.a # prog.b + 1
    /\ status = "done"
    /\ Cardinality(FieldHandles(heap, 1) \cup FieldHandles(heap, 3)) = 6


\* What the first println of an Escape program writes when the Lazy is forced
\* in main: t + 1 over main's binding of t.
EscapeShown(kind, b) ==
    IF kind \in {"ElemImmutable", "FieldImmutable"} THEN [chars |-> <<97 + b + 1>>]
    ELSE [int |-> b + 3]

\* C40: a Lazy that a call writes through a path (array element or record
\* field) over the call's local t is forced, after the call returned, over the
\* forcing context's t (an immutable frame, else the local map, else the
\* global map), never over the call's; with t bound nowhere there the force
\* fails with undefined variable.
C40_LazyLeavesLocals ==
    prog.id = "Escape" =>
        IF prog.kind \in {"ElemMissing", "FieldMissing"}
        THEN /\ output = <<>>
             /\ status \in {"running", "panic"}
             /\ status = "panic" => (err = "undefined variable" /\ Did({"ArrayGet", "FieldGet"}))
        ELSE /\ status \in {"running", "done"}
             /\ Len(output) <= 4
             /\ output = SubSeq(<<EscapeShown(prog.kind, prog.b), [nl |-> TRUE],
                                  [int |-> 9], [nl |-> TRUE]>>, 1, Len(output))
             /\ status = "done" => Len(output) = 4

C40_Witness ==
    /\ prog.id = "Escape"
    /\ prog.kind = "FieldMissing"
    /\ status = "panic"
    /\ Len(call_stack) = 1

C40_Done ==
    /\ prog.id = "Escape"
    /\ prog.kind = "ElemLocal"
    /\ prog.a # prog.b + 2
    /\ status = "done"

====
